---- MODULE Spec2Model ----
(***************************************************************************)
(* Model of the manifest interpreter of src/cargo/util/toml.rs:            *)
(* to_manifest and its two paths (to_real_manifest, to_virtual_manifest),  *)
(* dependency resolution (TomlDependency::to_dependency), the [replace]    *)
(* table (TomlManifest::replace), target normalization (normalize) and the *)
(* profile merger (build_profiles).                                        *)
(*                                                                         *)
(* Option<T> is modelled as a sequence of length at most one: None is <<>> *)
(* and Some(x) is <<x>>.  CargoResult<T> is a record with a field ok; an   *)
(* error carries the message kind in err.                                  *)
(***************************************************************************)
EXTENDS Integers, Sequences, FiniteSets, TLC

VARIABLES
    files,       \* file-system snapshot under the package root
    layout,      \* the Layout handed to to_manifest
    source_id,   \* SourceId of the package being interpreted
    manifest,    \* the deserialized TomlManifest
    ignored,     \* key paths of the document no field consumed
    pc,          \* position inside to_manifest
    real,        \* outcome of to_real_manifest
    virt,        \* outcome of to_virtual_manifest (None until it is tried)
    result,      \* outcome of to_manifest
    cx,          \* Context threaded through process_dependencies
    hist,        \* declarations handed to to_dependency so far
    profile,     \* Option<TomlProfiles>, the argument of build_profiles
    merged,      \* the Profiles struct of build_profiles before the clearing
    profiles,    \* the Profiles returned by build_profiles
    contents,    \* the text of Cargo.toml handed to parse
    shell,       \* config.shell(): whether it can be written, and what was
    root         \* outcome of parse (None until it has run)

vars == <<files, layout, source_id, manifest, ignored, pc, real, virt, result,
          cx, hist, profile, merged, profiles, contents, shell, root>>

manifestVars == <<files, layout, source_id, manifest, ignored, pc, real, virt, result>>
depVars == <<cx, hist>>
profileVars == <<profile, merged, profiles>>
parseVars == <<contents, shell, root>>

----------------------------------------------------------------------------
(* Option and Result                                                       *)

None == <<>>
Some(x) == <<x>>
Opt(S) == {None} \cup {Some(x) : x \in S}
unwrap_or(o, d) == IF o = None THEN d ELSE o[1]
\* Option::or
or(a, b) == IF a # None THEN a ELSE b

Ok(v) == [ok |-> TRUE, val |-> v]
Err(e) == [ok |-> FALSE, err |-> e]

----------------------------------------------------------------------------
(* Bounds of the model                                                     *)

MaxCodegenUnits == 1
MaxDebug == 1

----------------------------------------------------------------------------
(* Paths of path dependencies.  A path is a record: abs tells whether it   *)
(* starts at the file-system root, comps are its components in order.      *)

MaxPathLen == 2
MaxDeps == 2

RelComponents == {"..", "a"}
AbsComponents == {".", "r"}

SeqsUpTo(S, n) == UNION {[1..k -> S] : k \in 0..n}

PathStrings ==
    {[abs |-> FALSE, comps |-> c] : c \in SeqsUpTo(RelComponents, MaxPathLen)}
    \cup {[abs |-> TRUE, comps |-> c] : c \in SeqsUpTo(AbsComponents, MaxPathLen)}

\* layout.root, the directory that holds Cargo.toml: /r
PackageRoot == [abs |-> TRUE, comps |-> <<"r">>]

\* Path::join: an absolute argument replaces the base
join(base, p) ==
    IF p.abs THEN p ELSE [abs |-> base.abs, comps |-> base.comps \o p.comps]

RECURSIVE normalize_components(_, _)
normalize_components(comps, ret) ==
    IF comps = <<>> THEN ret
    ELSE LET c == Head(comps)
             next == IF c = "." THEN ret
                     ELSE IF c = ".."
                          THEN (IF ret = <<>> THEN ret
                                ELSE SubSeq(ret, 1, Len(ret) - 1))
                          ELSE Append(ret, c)
         IN  normalize_components(Tail(comps), next)

\* util::normalize_path: drops `.` components and resolves `..` lexically
normalize_path(p) ==
    [abs |-> p.abs, comps |-> normalize_components(p.comps, <<>>)]

----------------------------------------------------------------------------
(* SourceId                                                                *)

CRATES_IO == "https://github.com/rust-lang/crates.io-index"

for_path(p) == [kind |-> "path", path |-> p]
for_git(url, reference) == [kind |-> "git", url |-> url, reference |-> reference]
crates_io == [kind |-> "registry", url |-> CRATES_IO]
is_path(sid) == sid.kind = "path"

Branch(s) == [ref |-> "Branch", name |-> s]
Tag(s) == [ref |-> "Tag", name |-> s]
Rev(s) == [ref |-> "Rev", name |-> s]

GoodGitUrl == "https://example.com/repo"
BadGitUrl == "not a url"
\* ToUrl::to_url fails on a string that is not a URL
to_url(s) == IF s = BadGitUrl THEN Err("invalid url") ELSE Ok(s)

GoodVersionReq == "1.0"
BadVersionReq == "one"
\* a slip in DependencyInner::parse: a version requirement is demanded
parse_version_req_required(version) ==
    IF version = None THEN Err("a version requirement is required")
    ELSE IF version[1] = BadVersionReq THEN Err("invalid version requirement")
    ELSE Ok([op |-> "^", v |-> version[1]])

\* the version requirement parsed by DependencyInner::parse
parse_version_req(version) ==
    IF version = None THEN Ok([op |-> "*", v |-> ""])
    ELSE IF version[1] = BadVersionReq THEN Err("invalid version requirement")
    ELSE Ok([op |-> "^", v |-> version[1]])

\* VersionReq::exact
exact(version) == [op |-> "=", v |-> version]

----------------------------------------------------------------------------
(* TomlDependency::to_dependency and process_dependencies                  *)

Simple(v) == [tag |-> "Simple", s |-> v]
Detailed(d) == [tag |-> "Detailed", d |-> d]

\* DetailedTomlDependency::default()
DetailedDefault ==
    [version |-> None, path |-> None, git |-> None, branch |-> None,
     tag |-> None, rev |-> None, features |-> None, optional |-> None,
     default_features |-> None, default_features2 |-> None]

\* a Context with nothing accumulated yet
EmptyContext(pkgid, sid, platform) ==
    [pkgid |-> pkgid, deps |-> <<>>, source_id |-> sid, nested_paths |-> <<>>,
     warnings |-> <<>>, platform |-> platform]

Warn(kind, subject) == [w |-> kind, on |-> subject]

\* the warnings for branch, tag and rev given without git, in that order
git_only_key_warnings(details, name) ==
    (IF details.branch # None THEN <<Warn("key_ignored_branch", name)>> ELSE <<>>)
    \o (IF details.tag # None THEN <<Warn("key_ignored_tag", name)>> ELSE <<>>)
    \o (IF details.rev # None THEN <<Warn("key_ignored_rev", name)>> ELSE <<>>)

n_details(details) ==
    (IF details.branch # None THEN 1 ELSE 0)
    + (IF details.tag # None THEN 1 ELSE 0)
    + (IF details.rev # None THEN 1 ELSE 0)

\* a slip in the precedence: the tag is looked at before the branch
git_reference_tag_first(details) ==
    IF details.tag # None THEN Tag(details.tag[1])
    ELSE IF details.branch # None THEN Branch(details.branch[1])
    ELSE IF details.rev # None THEN Rev(details.rev[1])
    ELSE Branch("master")

\* branch, else tag, else rev, else GitReference::Branch("master")
git_reference(details) ==
    IF details.branch # None THEN Branch(details.branch[1])
    ELSE IF details.tag # None THEN Tag(details.tag[1])
    ELSE IF details.rev # None THEN Rev(details.rev[1])
    ELSE Branch("master")

\* a slip in to_dependency: the joined path is used without normalize_path
path_source_unnormalized(c, path) ==
    IF is_path(c.source_id)
    THEN for_path(join(PackageRoot, path))
    ELSE c.source_id

\* a slip in to_dependency: the owner's kind of source is not looked at
path_source_always_path(c, path) ==
    for_path(normalize_path(join(PackageRoot, path)))

\* the (None, Some(path)) arm of new_source_id
path_source(c, path) ==
    IF is_path(c.source_id)
    THEN for_path(normalize_path(join(PackageRoot, path)))
    ELSE c.source_id

\* Resolves one declaration in context c.  The value of a success is the
\* dependency together with the context as the call leaves it.
to_dependency(decl, name, c, kind) ==
    LET details == IF decl.tag = "Simple"
                   THEN [DetailedDefault EXCEPT !.version = Some(decl.s)]
                   ELSE decl.d
        w1 == IF details.version = None /\ details.path = None
                 /\ details.git = None
              THEN Append(c.warnings, Warn("no_source", name))
              ELSE c.warnings
        w2 == IF details.git = None
              THEN w1 \o git_only_key_warnings(details, name)
              ELSE w1
        w3 == IF details.git # None
              THEN w2
                   \o (IF details.path # None
                       THEN <<Warn("git_and_path", name)>> ELSE <<>>)
                   \o (IF n_details(details) > 1
                       THEN <<Warn("many_git_refs", name)>> ELSE <<>>)
              ELSE w2
        nested == IF details.git = None /\ details.path # None
                  THEN Append(c.nested_paths, details.path[1])
                  ELSE c.nested_paths
        new_source_id ==
            IF details.git # None
            THEN LET loc == to_url(details.git[1]) IN
                 IF loc.ok THEN Ok(for_git(loc.val, git_reference(details)))
                 ELSE Err(loc.err)
            ELSE IF details.path # None
            THEN Ok(path_source(c, details.path[1]))
            ELSE Ok(crates_io)
        req == parse_version_req(details.version)
    IN  IF ~new_source_id.ok THEN Err(new_source_id.err)
        ELSE IF ~req.ok THEN Err(req.err)
        ELSE Ok([dep |-> [name |-> name,
                          source_id |-> new_source_id.val,
                          req |-> req.val,
                          features |-> unwrap_or(details.features, <<>>),
                          default_features |->
                              unwrap_or(or(details.default_features,
                                           details.default_features2), TRUE),
                          optional |-> unwrap_or(details.optional, FALSE),
                          platform |-> c.platform,
                          kind |-> unwrap_or(kind, "Normal")],
                 cx |-> [c EXCEPT !.warnings = w3, !.nested_paths = nested]])

\* process_dependencies over a table given in its iteration order: each
\* entry is resolved and pushed on cx.deps, the first failure is returned
RECURSIVE process_dependencies(_, _, _)
process_dependencies(c, new_deps, kind) ==
    IF new_deps = None \/ new_deps = Some(<<>>) THEN Ok(c)
    ELSE LET entry == Head(new_deps[1])
             r == to_dependency(entry[2], entry[1], c, kind)
         IN  IF ~r.ok THEN Err(r.err)
             ELSE process_dependencies(
                      [r.val.cx EXCEPT !.deps = Append(@, r.val.dep)],
                      Some(Tail(new_deps[1])), kind)

----------------------------------------------------------------------------
(* Files, Layout and the inferred targets.  A file is named by its         *)
(* directory below the package root, its stem and its extension.           *)

File(dir, stem, ext) == [dir |-> dir, stem |-> stem, ext |-> ext]

LibRs == File("src", "lib", "rs")
MainRs == File("src", "main", "rs")
BuildRs == File("", "build", "rs")

\* file names that begin with a dot
DotStems == {".x"}
starts_with_dot(f) == f.stem \in DotStems

\* the enumerations of a finite set, one per order
Perms(S) ==
    {q \in [1..Cardinality(S) -> S] :
        \A i, j \in 1..Cardinality(S) : i # j => q[i] # q[j]}

\* what try_add_files keeps of a directory
listed(fs, dir) ==
    {f \in fs : f.dir = dir /\ f.ext = "rs" /\ ~starts_with_dot(f)}

\* Layout::from_project_path: read_dir yields the entries in any order
Layouts(fs) ==
    {[lib |-> IF LibRs \in fs THEN Some(LibRs) ELSE None,
      bins |-> (IF MainRs \in fs THEN <<MainRs>> ELSE <<>>) \o b,
      examples |-> e, tests |-> t, benches |-> h] :
        b \in Perms(listed(fs, "src/bin")),
        e \in Perms(listed(fs, "examples")),
        t \in Perms(listed(fs, "tests")),
        h \in Perms(listed(fs, "benches"))}

\* TomlTarget::new()
TomlTarget_new ==
    [name |-> None, crate_type |-> None, crate_type2 |-> None, path |-> None,
     test |-> None, doctest |-> None, bench |-> None, doc |-> None,
     plugin |-> None, proc_macro |-> None, proc_macro2 |-> None,
     harness |-> None, required_features |-> None]

SeqMap(Op(_), q) == [i \in 1..Len(q) |-> Op(q[i])]

inferred_lib_target(name, lay) ==
    IF lay.lib = None THEN None
    ELSE Some([TomlTarget_new EXCEPT !.name = Some(name), !.path = lay.lib])

\* a slip in inferred_bin_targets: src/main.rs is named after its file too
inferred_bin_targets_by_stem(name, lay) ==
    LET target(bin) ==
            [TomlTarget_new EXCEPT !.name = Some(bin.stem), !.path = Some(bin)]
    IN  SeqMap(target, lay.bins)

inferred_bin_targets(name, lay) ==
    LET target(bin) ==
            [TomlTarget_new EXCEPT
                !.name = Some(IF bin = MainRs THEN name ELSE bin.stem),
                !.path = Some(bin)]
    IN  SeqMap(target, lay.bins)

\* inferred_example_targets, inferred_test_targets, inferred_bench_targets
inferred_stem_targets(paths) ==
    LET target(ex) ==
            [TomlTarget_new EXCEPT !.name = Some(ex.stem), !.path = Some(ex)]
    IN  SeqMap(target, paths)

----------------------------------------------------------------------------
(* TomlTarget validation                                                   *)

\* names for which name.trim().is_empty()
BlankNames == {"", " "}
\* names for which name.contains('-')
HyphenNames == {"a-b"}

\* a slip in validate_library_name: hyphens are let through
validate_library_name_blank_only(t) ==
    IF t.name = None THEN Ok(TRUE)
    ELSE IF t.name[1] \in BlankNames THEN Err("library target names cannot be empty")
    ELSE Ok(TRUE)

validate_library_name(t) ==
    IF t.name = None THEN Ok(TRUE)
    ELSE IF t.name[1] \in BlankNames THEN Err("library target names cannot be empty")
    ELSE IF t.name[1] \in HyphenNames
         THEN Err("library target names cannot contain hyphens")
    ELSE Ok(TRUE)

\* a slip in the validate_*_name functions: an absent name is let through
validate_name_optional(t, what) ==
    IF t.name = None THEN Ok(TRUE)
    ELSE IF t.name[1] \in BlankNames THEN Err(what \o " target names cannot be empty")
    ELSE Ok(TRUE)

\* validate_binary_name, validate_example_name, validate_test_name and
\* validate_bench_name, which differ in the word of their messages
validate_name(t, what) ==
    IF t.name = None THEN Err(what \o " target name is required")
    ELSE IF t.name[1] \in BlankNames THEN Err(what \o " target names cannot be empty")
    ELSE Ok(TRUE)

proc_macro(t) == or(t.proc_macro, t.proc_macro2)

validate_crate_type(t) ==
    IF t.plugin = Some(TRUE) /\ proc_macro(t) = Some(TRUE)
    THEN Err("lib.plugin and lib.proc-macro cannot both be true")
    ELSE Ok(TRUE)

\* the first failure of validating every target of the list, in order
RECURSIVE validate_all(_, _)
validate_all(targets, what) ==
    IF targets = <<>> THEN Ok(TRUE)
    ELSE LET r == validate_name(Head(targets), what) IN
         IF ~r.ok THEN r ELSE validate_all(Tail(targets), what)

\* TomlTarget::name panics when the name is absent.  A panic unwinds through
\* every caller: it is the outcome Err(Panic), which nothing handles.
Panic == "panic: target name is required"
name_of(t) == IF t.name = None THEN Panic ELSE t.name[1]

Blacklist == {"build", "deps", "examples", "native"}

\* a slip in unique_names_in_targets: a name is only compared with the one
\* just before it
RECURSIVE unique_names_adjacent(_, _)
unique_names_adjacent(targets, seen) ==
    IF targets = <<>> THEN Ok(TRUE)
    ELSE LET v == name_of(Head(targets)) IN
         IF v \in seen THEN Err(v)
         ELSE unique_names_adjacent(Tail(targets), {v})

\* unique_names_in_targets: the first name met a second time
RECURSIVE unique_names_in_targets(_, _)
unique_names_in_targets(targets, seen) ==
    IF targets = <<>> THEN Ok(TRUE)
    ELSE LET v == name_of(Head(targets)) IN
         IF v = Panic THEN Err(Panic)
         ELSE IF v \in seen THEN Err(v)
         ELSE unique_names_in_targets(Tail(targets), seen \cup {v})

----------------------------------------------------------------------------
(* normalize                                                               *)

\* Target::blank and the constructors of core::manifest::Target
Target_blank ==
    [kind |-> "Bin", name |-> "", src_path |-> File("", "", ""),
     crate_types |-> <<>>, required_features |-> None,
     tested |-> TRUE, doc |-> FALSE, doctest |-> FALSE, benched |-> TRUE,
     harness |-> TRUE, for_host |-> FALSE]

lib_target_new(name, crate_types, path) ==
    [Target_blank EXCEPT !.kind = "Lib", !.name = name, !.src_path = path,
                         !.crate_types = crate_types,
                         !.doctest = TRUE, !.doc = TRUE]
bin_target_new(name, path, req) ==
    [Target_blank EXCEPT !.kind = "Bin", !.name = name, !.src_path = path,
                         !.required_features = req, !.doc = TRUE]
custom_build_target_new(name, path) ==
    [Target_blank EXCEPT !.kind = "CustomBuild", !.name = name,
                         !.src_path = path, !.for_host = TRUE,
                         !.benched = FALSE, !.tested = FALSE]
example_target_new(name, crate_types, path, req) ==
    [Target_blank EXCEPT !.kind = "Example", !.name = name, !.src_path = path,
                         !.crate_types = crate_types,
                         !.required_features = req,
                         !.benched = FALSE, !.tested = FALSE]
test_target_new(name, path, req) ==
    [Target_blank EXCEPT !.kind = "Test", !.name = name, !.src_path = path,
                         !.required_features = req, !.benched = FALSE]
bench_target_new(name, path, req) ==
    [Target_blank EXCEPT !.kind = "Bench", !.name = name, !.src_path = path,
                         !.required_features = req, !.tested = FALSE]

is_custom_build(t) == t.kind = "CustomBuild"

\* a slip in configure: an explicit false wins over an explicit true
configure_false_wins(toml, target) ==
    [target EXCEPT
        !.tested = unwrap_or(toml.test, target.tested),
        !.doc = unwrap_or(toml.doc, target.doc),
        !.doctest = unwrap_or(toml.doctest, target.doctest),
        !.benched = unwrap_or(toml.bench, target.benched),
        !.harness = unwrap_or(toml.harness, target.harness),
        !.for_host =
            IF toml.plugin = None /\ proc_macro(toml) = None THEN target.for_host
            ELSE IF toml.plugin = Some(FALSE) \/ proc_macro(toml) = Some(FALSE)
                 THEN FALSE
            ELSE TRUE]

configure(toml, target) ==
    [target EXCEPT
        !.tested = unwrap_or(toml.test, target.tested),
        !.doc = unwrap_or(toml.doc, target.doc),
        !.doctest = unwrap_or(toml.doctest, target.doctest),
        !.benched = unwrap_or(toml.bench, target.benched),
        !.harness = unwrap_or(toml.harness, target.harness),
        !.for_host =
            IF toml.plugin = None /\ proc_macro(toml) = None THEN target.for_host
            ELSE IF toml.plugin = Some(TRUE) \/ proc_macro(toml) = Some(TRUE)
                 THEN TRUE
            ELSE FALSE]

\* a slip in inferred_bin_path: the last resort is src/main.rs
inferred_bin_path_main_last(bin, fs, lib, bin_len) ==
    IF lib /\ bin_len > 1 THEN File("src/bin", name_of(bin), "rs")
    ELSE IF lib /\ bin_len = 1
         THEN (IF File("src/bin", name_of(bin), "rs") \in fs /\ MainRs \notin fs
               THEN File("src/bin", name_of(bin), "rs")
               ELSE MainRs)
    ELSE IF bin_len = 1
         THEN (IF MainRs \in fs THEN MainRs
               ELSE IF File("src", name_of(bin), "rs") \in fs
                    THEN File("src", name_of(bin), "rs")
               ELSE IF File("src/bin", name_of(bin), "rs") \in fs
                    THEN File("src/bin", name_of(bin), "rs")
               ELSE File("src/bin", "main", "rs"))
    ELSE File("src/bin", name_of(bin), "rs")

inferred_bin_path(bin, fs, lib, bin_len) ==
    IF lib /\ bin_len > 1 THEN File("src/bin", name_of(bin), "rs")
    ELSE IF lib /\ bin_len = 1
         THEN (IF MainRs \in fs THEN MainRs
               ELSE IF File("src/bin", name_of(bin), "rs") \in fs
                    THEN File("src/bin", name_of(bin), "rs")
               ELSE File("src/bin", "main", "rs"))
    ELSE IF bin_len = 1
         THEN (IF MainRs \in fs THEN MainRs
               ELSE IF File("src", name_of(bin), "rs") \in fs
                    THEN File("src", name_of(bin), "rs")
               ELSE IF File("src/bin", name_of(bin), "rs") \in fs
                    THEN File("src/bin", name_of(bin), "rs")
               ELSE File("src/bin", "main", "rs"))
    ELSE File("src/bin", name_of(bin), "rs")

\* crate types given by crate-type or crate_type
crate_types_of(t) == or(t.crate_type, t.crate_type2)

lib_target(l) ==
    LET path == unwrap_or(l.path, File("src", name_of(l), "rs"))
        crate_types ==
            IF crate_types_of(l) # None THEN crate_types_of(l)[1]
            ELSE <<IF l.plugin = Some(TRUE) THEN "dylib"
                   ELSE IF proc_macro(l) = Some(TRUE) THEN "proc-macro"
                   ELSE "lib">>
    IN  configure(l, lib_target_new(name_of(l), crate_types, path))

bin_targets(bins, fs, lib) ==
    LET target(bin) ==
            configure(bin,
                bin_target_new(name_of(bin),
                    unwrap_or(bin.path, inferred_bin_path(bin, fs, lib, Len(bins))),
                    bin.required_features))
    IN  SeqMap(target, bins)

custom_build_target(cmd) ==
    custom_build_target_new("build-script-" \o cmd.stem, cmd)

example_targets(examples) ==
    LET target(ex) ==
            configure(ex,
                example_target_new(name_of(ex),
                    unwrap_or(crate_types_of(ex), <<>>),
                    unwrap_or(ex.path, File("examples", name_of(ex), "rs")),
                    ex.required_features))
    IN  SeqMap(target, examples)

test_targets(tests) ==
    LET target(test) ==
            configure(test,
                test_target_new(name_of(test),
                    unwrap_or(test.path,
                        IF name_of(test) = "test" THEN File("src", "test", "rs")
                        ELSE File("tests", name_of(test), "rs")),
                    test.required_features))
    IN  SeqMap(target, tests)

bench_targets(benches) ==
    LET target(bench) ==
            configure(bench,
                bench_target_new(name_of(bench),
                    unwrap_or(bench.path,
                        IF name_of(bench) = "bench" THEN File("src", "bench", "rs")
                        ELSE File("benches", name_of(bench), "rs")),
                    bench.required_features))
    IN  SeqMap(target, benches)

normalize(fs, lib, bins, custom_build, examples, tests, benches) ==
    (IF lib # None THEN <<lib_target(lib[1])>> \o bin_targets(bins, fs, TRUE)
     ELSE IF Len(bins) > 0 THEN bin_targets(bins, fs, FALSE)
     ELSE <<>>)
    \o (IF custom_build # None THEN <<custom_build_target(custom_build[1])>>
        ELSE <<>>)
    \o example_targets(examples)
    \o test_targets(tests)
    \o bench_targets(benches)

\* a slip in unique_build_targets: the targets are told apart by their names
RECURSIVE unique_build_targets_by_name(_, _)
unique_build_targets_by_name(targets, seen) ==
    IF targets = <<>> THEN Ok(TRUE)
    ELSE LET v == Head(targets).name IN
         IF v \in seen THEN Err(Head(targets).src_path)
         ELSE unique_build_targets_by_name(Tail(targets), seen \cup {v})

\* unique_build_targets: the first source path met a second time
RECURSIVE unique_build_targets(_, _)
unique_build_targets(targets, seen) ==
    IF targets = <<>> THEN Ok(TRUE)
    ELSE LET v == Head(targets).src_path IN
         IF v \in seen THEN Err(v)
         ELSE unique_build_targets(Tail(targets), seen \cup {v})

\* StringOrBool
BuildBool(b) == [tag |-> "Bool", b |-> b]
BuildString(f) == [tag |-> "String", s |-> f]

\* a slip in maybe_custom_build: build = true probes for the file too
maybe_custom_build_probing(build, fs) ==
    IF build = None \/ (build[1].tag = "Bool" /\ build[1].b)
    THEN (IF BuildRs \in fs THEN Some(BuildRs) ELSE None)
    ELSE IF build[1].tag = "String" THEN Some(build[1].s)
    ELSE None

maybe_custom_build(build, fs) ==
    IF build = None
    THEN (IF BuildRs \in fs THEN Some(BuildRs) ELSE None)
    ELSE IF build[1].tag = "String" THEN Some(build[1].s)
    ELSE IF build[1].b THEN Some(BuildRs)
    ELSE None

----------------------------------------------------------------------------
(* The dependency tables of to_real_manifest and the [replace] table.      *)
(* A HashMap is given as the sequence of its entries <<key, value>> in the *)
(* order its iteration yields them; keys are distinct.                     *)

Then(r, F(_)) == IF r.ok THEN F(r.val) ELSE r

BadPlatform == "cfg("
\* Platform::from_str
parse_platform(name) ==
    IF name = BadPlatform THEN Err("invalid platform") ELSE Ok(name)

\* the body of the loop over self.target
process_platform(c, name, platform) ==
    Then(parse_platform(name), LAMBDA pf :
    Then(process_dependencies([c EXCEPT !.platform = Some(pf)],
                              platform.dependencies, None), LAMBDA c1 :
    Then(process_dependencies(c1, or(platform.build_dependencies,
                                     platform.build_dependencies2),
                              Some("Build")), LAMBDA c2 :
    process_dependencies(c2, or(platform.dev_dependencies,
                                platform.dev_dependencies2),
                         Some("Development")))))

RECURSIVE process_platforms(_, _)
process_platforms(c, targets) ==
    IF targets = <<>> THEN Ok(c)
    ELSE Then(process_platform(c, Head(targets)[1], Head(targets)[2]),
              LAMBDA c1 : process_platforms(c1, Tail(targets)))

\* PackageIdSpec::parse on the keys of the model
PackageIdSpec_parse(key) ==
    CASE key = "foo:1.0.0" ->
            Ok([name |-> "foo", version |-> Some("1.0.0"), url |-> None])
      [] key = "bar:2.0.0" ->
            Ok([name |-> "bar", version |-> Some("2.0.0"), url |-> None])
      [] key = "foo" ->
            Ok([name |-> "foo", version |-> None, url |-> None])
      [] key = "http://host/foo#1.0.0" ->
            Ok([name |-> "foo", version |-> Some("1.0.0"),
                url |-> Some("http://host/foo")])
      [] OTHER -> Err("invalid package id specification")

SpecKeys == {"foo:1.0.0", "bar:2.0.0", "foo", "http://host/foo#1.0.0", "foo:one"}

version_specified(replacement) ==
    IF replacement.tag = "Detailed" THEN replacement.d.version # None ELSE TRUE

\* a slip in replace: a replacement with a version requirement is let through
replace_entry_allows_version(c, key, replacement) ==
    LET parsed == PackageIdSpec_parse(key) IN
    IF ~parsed.ok
    THEN Err("replacements must specify a valid semver version to replace")
    ELSE LET spec == IF parsed.val.url = None
                     THEN [parsed.val EXCEPT !.url = Some(CRATES_IO)]
                     ELSE parsed.val
             r == to_dependency(replacement, spec.name, c, None)
         IN  IF ~r.ok THEN Err(r.err)
             ELSE IF spec.version = None
             THEN Err("replacements must specify a version to replace")
             ELSE Ok([entry |-> <<spec, [r.val.dep EXCEPT
                                            !.req = exact(spec.version[1])]>>,
                      cx |-> r.val.cx])

\* the body of the loop of TomlManifest::replace for one entry
replace_entry(c, key, replacement) ==
    LET parsed == PackageIdSpec_parse(key) IN
    IF ~parsed.ok
    THEN Err("replacements must specify a valid semver version to replace")
    ELSE LET spec == IF parsed.val.url = None
                     THEN [parsed.val EXCEPT !.url = Some(CRATES_IO)]
                     ELSE parsed.val
         IN  IF version_specified(replacement)
             THEN Err("replacements cannot specify a version requirement")
             ELSE LET r == to_dependency(replacement, spec.name, c, None) IN
                  IF ~r.ok THEN Err(r.err)
                  ELSE IF spec.version = None
                  THEN Err("replacements must specify a version to replace")
                  ELSE Ok([entry |-> <<spec, [r.val.dep EXCEPT
                                                 !.req = exact(spec.version[1])]>>,
                           cx |-> r.val.cx])

RECURSIVE replace_entries(_, _, _)
replace_entries(c, entries, acc) ==
    IF entries = <<>> THEN Ok([replace |-> acc, cx |-> c])
    ELSE Then(replace_entry(c, Head(entries)[1], Head(entries)[2]),
              LAMBDA r : replace_entries(r.cx, Tail(entries),
                                         Append(acc, r.entry)))

\* a slip in replace: the paths of the replacements are not recorded
replace_without_paths(m, c) ==
    Then(replace_entries(c, unwrap_or(m.replace, <<>>), <<>>), LAMBDA r :
    Ok([r EXCEPT !.cx.nested_paths = c.nested_paths]))

\* TomlManifest::replace
replace(m, c) == replace_entries(c, unwrap_or(m.replace, <<>>), <<>>)

\* a slip in the check: the map is keyed by name and platform
check_sources_per_platform(deps, names_sources) ==
    IF \E i, j \in 1..Len(deps) :
          /\ i < j
          /\ deps[i].name = deps[j].name
          /\ deps[i].platform = deps[j].platform
          /\ deps[i].source_id # deps[j].source_id
    THEN Err("Dependency has different source paths depending on the build target")
    ELSE Ok(TRUE)

\* a slip in the check: a name met a second time fails whatever its source
check_sources_any_repeat(deps, names_sources) ==
    IF \E i, j \in 1..Len(deps) : i < j /\ deps[i].name = deps[j].name
    THEN Err("Dependency has different source paths depending on the build target")
    ELSE Ok(TRUE)

\* the names_sources loop: every dependency is compared with the source
\* last inserted under its name
RECURSIVE check_sources(_, _)
check_sources(deps, names_sources) ==
    IF deps = <<>> THEN Ok(TRUE)
    ELSE LET dep == Head(deps)
             prev == IF dep.name \in DOMAIN names_sources
                     THEN Some(names_sources[dep.name]) ELSE None
             inserted == [n \in DOMAIN names_sources \cup {dep.name} |->
                             IF n = dep.name THEN dep.source_id
                             ELSE names_sources[n]]
         IN  IF prev # None /\ prev # Some(dep.source_id)
             THEN Err("Dependency has different source paths depending on the build target")
             ELSE check_sources(Tail(deps), inserted)

EmptyMap == [n \in {} |-> None]

\* Summary::new rejects feature tables that do not fit the dependencies
BadFeatures == "bad"
Summary_new(pkgid, deps, features) ==
    IF features = Some(BadFeatures) THEN Err("invalid features")
    ELSE Ok([package_id |-> pkgid, dependencies |-> deps,
             features |-> features])

\* a slip in the match: [workspace] wins silently over package.workspace
workspace_config_root_wins(workspace, project_workspace) ==
    IF workspace # None
    THEN Ok([tag |-> "Root", members |-> workspace[1].members,
             exclude |-> unwrap_or(workspace[1].exclude, <<>>)])
    ELSE Ok([tag |-> "Member", root |-> project_workspace])

\* the match that computes workspace_config in to_real_manifest
workspace_config(workspace, project_workspace) ==
    IF workspace # None /\ project_workspace = None
    THEN Ok([tag |-> "Root", members |-> workspace[1].members,
             exclude |-> unwrap_or(workspace[1].exclude, <<>>)])
    ELSE IF workspace = None
    THEN Ok([tag |-> "Member", root |-> project_workspace])
    ELSE Err("cannot configure both package.workspace and [workspace]")

----------------------------------------------------------------------------
(* Profiles: build_profiles and merge                                      *)

U32(n) == [tag |-> "U32", val |-> n]
Bool(b) == [tag |-> "Bool", val |-> IF b THEN 1 ELSE 0]

\* debug = true means this debug-info level
DebugTrueLevel == 2

\* Profile::default() and the named defaults built on it
ProfileDefault ==
    [opt_level |-> "0", lto |-> FALSE, codegen_units |-> None,
     rustc_args |-> None, rustdoc_args |-> None, debuginfo |-> None,
     debug_assertions |-> FALSE, overflow_checks |-> FALSE, rpath |-> FALSE,
     test |-> FALSE, doc |-> FALSE, run_custom_build |-> FALSE,
     check |-> FALSE, panic |-> None]

default_dev ==
    [ProfileDefault EXCEPT !.debuginfo = Some(2), !.debug_assertions = TRUE,
                           !.overflow_checks = TRUE]
default_release == [ProfileDefault EXCEPT !.opt_level = "3"]
default_test == [default_dev EXCEPT !.test = TRUE]
default_bench == [default_release EXCEPT !.test = TRUE]
default_doc == [default_dev EXCEPT !.doc = TRUE]
default_custom_build == [default_dev EXCEPT !.run_custom_build = TRUE]
default_check == [default_dev EXCEPT !.check = TRUE]
default_doctest == [default_dev EXCEPT !.doc = TRUE, !.test = TRUE]

\* the match on *debug at the top of merge
debug_level(debug) ==
    IF debug = None THEN None
    ELSE IF debug[1].tag = "U32" THEN Some(Some(debug[1].val))
    ELSE IF debug[1].val = 1 THEN Some(Some(DebugTrueLevel))
    ELSE Some(None)

\* a slip in merge: lto is copied from the default, the override is dropped
merge_lto_dropped(prof, toml) ==
    IF toml = None THEN prof
    ELSE LET t == toml[1] IN
         [opt_level |-> unwrap_or(t.opt_level, prof.opt_level),
          lto |-> prof.lto,
          codegen_units |-> t.codegen_units,
          rustc_args |-> None,
          rustdoc_args |-> None,
          debuginfo |-> unwrap_or(debug_level(t.debug), prof.debuginfo),
          debug_assertions |-> unwrap_or(t.debug_assertions, prof.debug_assertions),
          overflow_checks |-> unwrap_or(t.overflow_checks, prof.overflow_checks),
          rpath |-> unwrap_or(t.rpath, prof.rpath),
          test |-> prof.test,
          doc |-> prof.doc,
          run_custom_build |-> prof.run_custom_build,
          check |-> prof.check,
          panic |-> or(t.panic, prof.panic)]

merge(prof, toml) ==
    IF toml = None THEN prof
    ELSE LET t == toml[1] IN
         [opt_level |-> unwrap_or(t.opt_level, prof.opt_level),
          lto |-> unwrap_or(t.lto, prof.lto),
          codegen_units |-> t.codegen_units,
          rustc_args |-> None,
          rustdoc_args |-> None,
          debuginfo |-> unwrap_or(debug_level(t.debug), prof.debuginfo),
          debug_assertions |-> unwrap_or(t.debug_assertions, prof.debug_assertions),
          overflow_checks |-> unwrap_or(t.overflow_checks, prof.overflow_checks),
          rpath |-> unwrap_or(t.rpath, prof.rpath),
          test |-> prof.test,
          doc |-> prof.doc,
          run_custom_build |-> prof.run_custom_build,
          check |-> prof.check,
          panic |-> or(t.panic, prof.panic)]

\* profiles.and_then(|p| p.<section>.as_ref())
section(p, name) == IF p = None THEN None ELSE p[1][name]

\* the struct literal of build_profiles, before the panic fields are cleared
merged_profiles(p) ==
    [release |-> merge(default_release, section(p, "release")),
     dev |-> merge(default_dev, section(p, "dev")),
     test |-> merge(default_test, section(p, "test")),
     test_deps |-> merge(default_dev, section(p, "dev")),
     bench |-> merge(default_bench, section(p, "bench")),
     bench_deps |-> merge(default_release, section(p, "release")),
     doc |-> merge(default_doc, section(p, "doc")),
     custom_build |-> default_custom_build,
     check |-> merge(default_check, section(p, "dev")),
     doctest |-> default_doctest]

\* a slip in build_profiles: the panic of test_deps is not cleared
build_profiles_keep_test_deps(p) ==
    LET m == merged_profiles(p) IN
    [m EXCEPT !.test.panic = None, !.bench.panic = None,
              !.bench_deps.panic = None]

build_profiles(p) ==
    LET m == merged_profiles(p) IN
    [m EXCEPT !.test.panic = None, !.bench.panic = None,
              !.test_deps.panic = None, !.bench_deps.panic = None]

----------------------------------------------------------------------------
(* to_real_manifest, to_virtual_manifest and to_manifest                   *)

PackageVersion == "0.1.0"

\* the targets of one kind: the validated section, else the inferred ones
explicit_or_inferred(sect, what, inferred) ==
    IF sect = None THEN Ok(inferred)
    ELSE Then(validate_all(sect[1], what), LAMBDA v : Ok(sect[1]))

\* the lib target of to_real_manifest
real_lib(m, p, lay) ==
    IF m.lib = None THEN Ok(inferred_lib_target(p.name, lay))
    ELSE Then(validate_library_name(m.lib[1]), LAMBDA v1 :
         Then(validate_crate_type(m.lib[1]), LAMBDA v2 :
         Ok(Some([m.lib[1] EXCEPT !.name = or(@, Some(p.name)),
                                  !.path = or(@, lay.lib)]))))

\* a slip in the loop over bins: only the first bin is looked at
check_blacklist_first(bins) ==
    IF bins # <<>> /\ name_of(Head(bins)) \in Blacklist
    THEN Err("the binary target name " \o name_of(Head(bins)) \o " is forbidden")
    ELSE Ok(TRUE)

\* the loop over bins: the first bin with a name of the blacklist is reported
RECURSIVE check_blacklist(_)
check_blacklist(bins) ==
    IF bins = <<>> THEN Ok(TRUE)
    ELSE IF name_of(Head(bins)) = Panic THEN Err(Panic)
    ELSE IF name_of(Head(bins)) \in Blacklist
         THEN Err("the binary target name " \o name_of(Head(bins)) \o " is forbidden")
    ELSE check_blacklist(Tail(bins))

check_unique(targets, what) ==
    LET r == unique_names_in_targets(targets, {}) IN
    IF r.ok \/ r.err = Panic THEN r
    ELSE Err("found duplicate " \o what \o " name " \o r.err)

\* the five target lists of to_real_manifest, up to the uniqueness checks
real_targets(m, p, lay) ==
    Then(real_lib(m, p, lay), LAMBDA lib :
    Then(explicit_or_inferred(m.bin, "binary",
                              inferred_bin_targets(p.name, lay)), LAMBDA bins :
    Then(check_blacklist(bins), LAMBDA v1 :
    Then(explicit_or_inferred(m.example, "example",
                              inferred_stem_targets(lay.examples)), LAMBDA examples :
    Then(explicit_or_inferred(m.test, "test",
                              inferred_stem_targets(lay.tests)), LAMBDA tests :
    Then(explicit_or_inferred(m.bench, "bench",
                              inferred_stem_targets(lay.benches)), LAMBDA benches :
    Then(check_unique(bins, "binary"), LAMBDA v2 :
    Then(check_unique(examples, "example"), LAMBDA v3 :
    Then(check_unique(benches, "bench"), LAMBDA v4 :
    Then(check_unique(tests, "test"), LAMBDA v5 :
    Ok([lib |-> lib, bins |-> bins, examples |-> examples,
        tests |-> tests, benches |-> benches])))))))))))

\* a slip in to_real_manifest: dev_dependencies is looked at before
\* dev-dependencies
real_dependencies_underscore_first(m, c) ==
    Then(process_dependencies(c, m.dependencies, None), LAMBDA c1 :
    Then(process_dependencies(c1, or(m.dev_dependencies2, m.dev_dependencies),
                              Some("Development")), LAMBDA c2 :
    Then(process_dependencies(c2, or(m.build_dependencies, m.build_dependencies2),
                              Some("Build")), LAMBDA c3 :
    Then(process_platforms(c3, unwrap_or(m.target, <<>>)), LAMBDA c4 :
    replace(m, c4)))))

\* the block of to_real_manifest that fills deps and replace
real_dependencies(m, c) ==
    Then(process_dependencies(c, m.dependencies, None), LAMBDA c1 :
    Then(process_dependencies(c1, or(m.dev_dependencies, m.dev_dependencies2),
                              Some("Development")), LAMBDA c2 :
    Then(process_dependencies(c2, or(m.build_dependencies, m.build_dependencies2),
                              Some("Build")), LAMBDA c3 :
    Then(process_platforms(c3, unwrap_or(m.target, <<>>)), LAMBDA c4 :
    replace(m, c4)))))

\* the head of to_real_manifest: the package section and its name
real_project(m) ==
    LET project == or(m.project, m.package) IN
    IF project = None THEN Err("no package or project section found")
    ELSE IF project[1].name \in BlankNames
         THEN Err("package name cannot be an empty string")
    ELSE Ok(project[1])

\* to_real_manifest up to the call of normalize
\* normalize calls name() on every target it is given
normalized_targets(m, lay, fs) ==
    Then(real_project(m), LAMBDA p :
    Then(real_targets(m, p, lay), LAMBDA t :
    LET all == (IF t.lib = None THEN <<>> ELSE <<t.lib[1]>>)
               \o t.bins \o t.examples \o t.tests \o t.benches
    IN  IF \E i \in 1..Len(all) : name_of(all[i]) = Panic
        THEN Err(Panic)
        ELSE Ok(normalize(fs, t.lib, t.bins, maybe_custom_build(p.build, fs),
                          t.examples, t.tests, t.benches))))

to_real_manifest(m, sid, lay, fs) ==
    Then(real_project(m), LAMBDA p :
    LET pkgid == [name |-> p.name, version |-> PackageVersion, source_id |-> sid] IN
    Then(normalized_targets(m, lay, fs), LAMBDA targets :
    LET dup == unique_build_targets(targets, {})
        warnings == IF dup.ok THEN <<>>
                    ELSE <<Warn("file in multiple build targets", dup.err)>>
        c0 == [EmptyContext(Some(pkgid), sid, None) EXCEPT !.warnings = warnings]
    IN
    Then(real_dependencies(m, c0), LAMBDA r :
    Then(check_sources(r.cx.deps, EmptyMap), LAMBDA v1 :
    Then(Summary_new(pkgid, r.cx.deps, m.features), LAMBDA summary :
    Then(workspace_config(m.workspace, p.workspace), LAMBDA ws :
    Ok([manifest |->
            [summary |-> summary,
             targets |-> targets,
             profiles |-> build_profiles(m.profile),
             replace |-> r.replace,
             workspace_config |-> ws,
             warnings |->
                 (IF p.license_file # None /\ p.license # None
                  THEN <<Warn("only one of license or license-file is necessary",
                              p.name)>>
                  ELSE <<>>) \o r.cx.warnings],
        paths |-> r.cx.nested_paths])))))))

\* a slip in to_virtual_manifest: the [[bench]] section is not looked at
virtual_sections_without_bench(m) ==
    IF m.project # None THEN Err("virtual manifests do not define [project]")
    ELSE IF m.package # None THEN Err("virtual manifests do not define [package]")
    ELSE IF m.lib # None THEN Err("virtual manifests do not specifiy [lib]")
    ELSE IF m.bin # None THEN Err("virtual manifests do not specifiy [[bin]]")
    ELSE IF m.example # None THEN Err("virtual manifests do not specifiy [[example]]")
    ELSE IF m.test # None THEN Err("virtual manifests do not specifiy [[test]]")
    ELSE Ok(TRUE)

\* a slip in to_virtual_manifest: the [package] section is not looked at
virtual_sections_without_package(m) ==
    IF m.project # None THEN Err("virtual manifests do not define [project]")
    ELSE IF m.lib # None THEN Err("virtual manifests do not specifiy [lib]")
    ELSE IF m.bin # None THEN Err("virtual manifests do not specifiy [[bin]]")
    ELSE IF m.example # None THEN Err("virtual manifests do not specifiy [[example]]")
    ELSE IF m.test # None THEN Err("virtual manifests do not specifiy [[test]]")
    ELSE IF m.bench # None THEN Err("virtual manifests do not specifiy [[bench]]")
    ELSE Ok(TRUE)

\* the sections a virtual manifest must not have
virtual_sections(m) ==
    IF m.project # None THEN Err("virtual manifests do not define [project]")
    ELSE IF m.package # None THEN Err("virtual manifests do not define [package]")
    ELSE IF m.lib # None THEN Err("virtual manifests do not specifiy [lib]")
    ELSE IF m.bin # None THEN Err("virtual manifests do not specifiy [[bin]]")
    ELSE IF m.example # None THEN Err("virtual manifests do not specifiy [[example]]")
    ELSE IF m.test # None THEN Err("virtual manifests do not specifiy [[test]]")
    ELSE IF m.bench # None THEN Err("virtual manifests do not specifiy [[bench]]")
    ELSE Ok(TRUE)

to_virtual_manifest(m, sid) ==
    Then(virtual_sections(m), LAMBDA v :
    Then(replace(m, EmptyContext(None, sid, None)), LAMBDA r :
    IF m.workspace = None
    THEN Err("virtual manifests must be configured with [workspace]")
    ELSE Ok([manifest |->
                 [replace |-> r.replace,
                  workspace_config |->
                      [tag |-> "Root", members |-> m.workspace[1].members,
                       exclude |-> unwrap_or(m.workspace[1].exclude, <<>>)],
                  profiles |-> build_profiles(m.profile)],
             paths |-> r.cx.nested_paths])))

\* key paths serde_ignored can report, in the order of a BTreeSet: no field
\* of TomlManifest is called foo and none of TomlProject metadata or metadatax
IgnoredKeyOrder ==
    <<"foo", "package.metadata", "package.metadatax", "project.metadata">>
\* keys for which key.starts_with("package.metadata")
MetadataPrefixed == {"package.metadata", "package.metadatax"}

\* the set `unused` of to_manifest, as the sequence its iteration yields
unused_keys(ign) ==
    SelectSeq(IgnoredKeyOrder, LAMBDA k : k \in ign /\ k \notin MetadataPrefixed)

Real(x) == [tag |-> "Real", m |-> x]
Virtual(x) == [tag |-> "Virtual", m |-> x]

\* a slip in the fallback: the error of the virtual attempt is returned
fallback_virtual_error(r, v) ==
    IF v.ok THEN Ok([either |-> Virtual(v.val.manifest), paths |-> v.val.paths])
    ELSE Err(v.err)

\* the Err(e) arm of the match in to_manifest
fallback(r, v) ==
    IF v.ok THEN Ok([either |-> Virtual(v.val.manifest), paths |-> v.val.paths])
    ELSE Err(r.err)

\* a slip in the Ok arm: the target check is left out
finish_real_unchecked(r, ign) ==
    LET w == SeqMap(LAMBDA k : Warn("unused manifest key", k), unused_keys(ign))
        mf == [r.val.manifest EXCEPT !.warnings = @ \o w]
    IN  Ok([either |-> Real(mf), paths |-> r.val.paths])

\* the Ok arm of the match in to_manifest
finish_real(r, ign) ==
    LET w == SeqMap(LAMBDA k : Warn("unused manifest key", k), unused_keys(ign))
        mf == [r.val.manifest EXCEPT !.warnings = @ \o w]
    IN  IF ~\E i \in 1..Len(mf.targets) : ~is_custom_build(mf.targets[i])
        THEN Err("no targets specified in the manifest")
        ELSE Ok([either |-> Real(mf), paths |-> r.val.paths])

\* to_manifest from the deserialized document on
to_manifest(m, sid, lay, fs, ign) ==
    LET r == to_real_manifest(m, sid, lay, fs) IN
    IF r.ok THEN finish_real(r, ign)
    ELSE IF r.err = Panic THEN r
    ELSE fallback(r, to_virtual_manifest(m, sid))

----------------------------------------------------------------------------
(* process_dependencies as a state machine: one table, one entry at a time *)

OwnSourceIds ==
    {for_path(PackageRoot), crates_io, for_git(GoodGitUrl, Branch("master"))}

Kinds == {"Development", "Build"}

PathDecls == {Detailed([DetailedDefault EXCEPT !.path = Some(p)]) : p \in PathStrings}

OtherDecls ==
    {Simple(GoodVersionReq), Simple(BadVersionReq),
     Detailed(DetailedDefault),
     Detailed([DetailedDefault EXCEPT !.branch = Some("b")]),
     Detailed([DetailedDefault EXCEPT !.git = Some(GoodGitUrl)]),
     Detailed([DetailedDefault EXCEPT !.git = Some(BadGitUrl)]),
     Detailed([DetailedDefault EXCEPT !.git = Some(GoodGitUrl),
                                      !.path = Some([abs |-> FALSE, comps |-> <<"a">>])]),
     Detailed([DetailedDefault EXCEPT !.git = Some(GoodGitUrl),
                                      !.tag = Some("t"), !.rev = Some("r")]),
     Detailed([DetailedDefault EXCEPT !.git = Some(GoodGitUrl),
                                      !.branch = Some("b")]),
     Detailed([DetailedDefault EXCEPT !.git = Some(GoodGitUrl),
                                      !.tag = Some("t")]),
     Detailed([DetailedDefault EXCEPT !.git = Some(GoodGitUrl),
                                      !.rev = Some("r")]),
     Detailed([DetailedDefault EXCEPT !.git = Some(GoodGitUrl),
                                      !.branch = Some("b"), !.tag = Some("t"),
                                      !.rev = Some("r")])}

DepDecls == PathDecls \cup OtherDecls

\* the keys of the table in the order the iteration meets them
DepNameSeq == <<"d", "e", "f", "g", "h">>

InitDep ==
    /\ cx \in {Some(EmptyContext(Some("foo"), sid, pf)) :
                  sid \in OwnSourceIds, pf \in Opt({"cfg(unix)"})}
    /\ hist = <<>>
    /\ files = {} /\ layout = None /\ source_id = None /\ manifest = None /\ ignored = {} /\ pc = "idle"
    /\ real = None /\ virt = None /\ result = None
    /\ profile = None /\ merged = None /\ profiles = None
    /\ contents = <<>> /\ shell = None /\ root = None

\* one iteration of the loop of process_dependencies: resolve the next entry
\* of the table and push it; a failure ends the loop
ProcessDependency ==
    /\ cx # None
    /\ Len(hist) < MaxDeps
    /\ Len(hist) < Len(DepNameSeq)
    /\ \A i \in 1..Len(hist) : hist[i].ok
    /\ \E decl \in DepDecls, kind \in Opt(Kinds) :
          /\ hist # <<>> => kind = hist[1].kind
          /\ LET name == DepNameSeq[Len(hist) + 1]
                 r == to_dependency(decl, name, cx[1], kind)
             IN  /\ hist' = Append(hist, [name |-> name, decl |-> decl,
                                          kind |-> kind, ok |-> r.ok])
                 /\ cx' = IF r.ok
                          THEN Some([r.val.cx EXCEPT !.deps = Append(@, r.val.dep)])
                          ELSE cx
    /\ UNCHANGED <<manifestVars, profileVars, parseVars>>

NextDep == ProcessDependency

SpecDep == InitDep /\ [][NextDep]_vars

----------------------------------------------------------------------------
(* Claims about dependency resolution                                      *)

\* the directory a walk along comps reaches from dir; the parent of the
\* file-system root is the root
RECURSIVE walk(_, _)
walk(dir, comps) ==
    IF comps = <<>> THEN dir
    ELSE IF Head(comps) = "." THEN walk(dir, Tail(comps))
    ELSE IF Head(comps) = ".."
         THEN walk(IF dir = <<>> THEN dir ELSE SubSeq(dir, 1, Len(dir) - 1),
                   Tail(comps))
    ELSE walk(dir \o <<Head(comps)>>, Tail(comps))

\* the directory a path string denotes when read in the package root
Directory(p) == walk(IF p.abs THEN <<>> ELSE PackageRoot.comps, p.comps)

IsPathDecl(decl) ==
    /\ decl.tag = "Detailed"
    /\ decl.d.path # None
    /\ decl.d.git = None

\* C7: when the owning package's SourceId is a path source, two path
\* dependency declarations whose path strings denote the same directory
\* relative to the package root resolve to equal SourceIds.
C7_SameDirectorySameSource ==
    (cx # None /\ is_path(cx[1].source_id)) =>
        \A i, j \in 1..Len(cx[1].deps) :
            (/\ IsPathDecl(hist[i].decl)
             /\ IsPathDecl(hist[j].decl)
             /\ Directory(hist[i].decl.d.path[1]) = Directory(hist[j].decl.d.path[1]))
            => cx[1].deps[i].source_id = cx[1].deps[j].source_id

\* two declarations spelled a/.. and /r have been resolved for a package
\* with a path source, to one SourceId
C7_Witness ==
    /\ cx # None
    /\ is_path(cx[1].source_id)
    /\ Len(cx[1].deps) = 2
    /\ IsPathDecl(hist[1].decl)
    /\ IsPathDecl(hist[2].decl)
    /\ hist[1].decl.d.path[1] = [abs |-> FALSE, comps |-> <<"a", "..">>]
    /\ hist[2].decl.d.path[1] = [abs |-> TRUE, comps |-> <<"r">>]
    /\ cx[1].deps[1].source_id = cx[1].deps[2].source_id
    /\ cx[1].deps[1].source_id = for_path(PackageRoot)

----------------------------------------------------------------------------
(* build_profiles as a state machine                                       *)

SectionNames == {"test", "doc", "bench", "dev", "release"}

EmptyTomlProfile ==
    [opt_level |-> None, lto |-> None, codegen_units |-> None, debug |-> None,
     debug_assertions |-> None, rpath |-> None, panic |-> None,
     overflow_checks |-> None]

TomlProfileValues ==
    [opt_level : Opt({"1", "s"}),
     lto : Opt(BOOLEAN),
     codegen_units : Opt(1..MaxCodegenUnits),
     debug : Opt({U32(n) : n \in 0..MaxDebug} \cup {Bool(TRUE), Bool(FALSE)}),
     debug_assertions : Opt(BOOLEAN),
     rpath : Opt(BOOLEAN),
     panic : Opt({"abort"}),
     overflow_checks : Opt(BOOLEAN)]

NoTomlProfiles == [n \in SectionNames |-> None]

\* one section with every combination of keys, the other sections absent
OneSectionInputs ==
    {[NoTomlProfiles EXCEPT ![n] = Some(t)] :
        n \in SectionNames, t \in TomlProfileValues}

\* every section absent, empty, or setting panic and lto
PanicTomlProfile == [EmptyTomlProfile EXCEPT !.panic = Some("abort"),
                                             !.lto = Some(TRUE)]
AllSectionInputs ==
    [SectionNames -> {None, Some(EmptyTomlProfile), Some(PanicTomlProfile)}]

ProfileInputs ==
    {None} \cup {Some(p) : p \in OneSectionInputs \cup AllSectionInputs}

InitProfiles ==
    /\ profile \in ProfileInputs
    /\ merged = None
    /\ profiles = None
    /\ files = {} /\ layout = None /\ source_id = None /\ manifest = None /\ ignored = {} /\ pc = "idle"
    /\ real = None /\ virt = None /\ result = None
    /\ cx = None /\ hist = <<>>
    /\ contents = <<>> /\ shell = None /\ root = None

BuildProfiles ==
    /\ profiles = None
    /\ merged' = Some(merged_profiles(profile))
    /\ profiles' = Some(build_profiles(profile))
    /\ UNCHANGED <<profile, manifestVars, depVars, parseVars>>

NextProfiles == BuildProfiles

SpecProfiles == InitProfiles /\ [][NextProfiles]_vars

----------------------------------------------------------------------------
(* Claims about the profiles                                               *)

HarnessProfiles == {"test", "bench", "test_deps", "bench_deps"}

\* C8: in the Profiles returned by build_profiles the panic strategy of
\* test, bench, test_deps and bench_deps is unset, whatever the user set in
\* profile.dev, profile.release, profile.test or profile.bench.
C8_HarnessPanicCleared ==
    profiles # None =>
        \A n \in HarnessProfiles : profiles[1][n].panic = None

\* build_profiles has run on a document whose profile.dev and profile.test
\* both set panic
C8_Witness ==
    /\ profiles # None
    /\ profile # None
    /\ profile[1]["dev"] # None /\ profile[1]["dev"][1].panic = Some("abort")
    /\ profile[1]["test"] # None /\ profile[1]["test"][1].panic = Some("abort")
    /\ merged[1].test_deps.panic = Some("abort")

\* the pairs (compiled-in default, override section) that build_profiles
\* hands to merge, by the name of the profile they produce
MergedFrom ==
    [release |-> <<default_release, "release">>,
     dev |-> <<default_dev, "dev">>,
     test |-> <<default_test, "test">>,
     test_deps |-> <<default_dev, "dev">>,
     bench |-> <<default_bench, "bench">>,
     bench_deps |-> <<default_release, "release">>,
     doc |-> <<default_doc, "doc">>,
     check |-> <<default_check, "dev">>]

\* the value an override gives to the debug-info level: an integer is that
\* level, true is level 2, false is no debug info
DebugOverride(d) ==
    IF d.tag = "U32" THEN Some(d.val)
    ELSE IF d.val = 1 THEN Some(2) ELSE None

\* every overridable field of m is the override's when the override sets it
\* and the default's otherwise
FollowsOverride(m, d, t) ==
    /\ m.opt_level = (IF t.opt_level # None THEN t.opt_level[1] ELSE d.opt_level)
    /\ m.lto = (IF t.lto # None THEN t.lto[1] ELSE d.lto)
    /\ m.codegen_units =
          (IF t.codegen_units # None THEN t.codegen_units ELSE d.codegen_units)
    /\ m.debuginfo =
          (IF t.debug # None THEN DebugOverride(t.debug[1]) ELSE d.debuginfo)
    /\ m.debug_assertions =
          (IF t.debug_assertions # None THEN t.debug_assertions[1]
           ELSE d.debug_assertions)
    /\ m.overflow_checks =
          (IF t.overflow_checks # None THEN t.overflow_checks[1]
           ELSE d.overflow_checks)
    /\ m.rpath = (IF t.rpath # None THEN t.rpath[1] ELSE d.rpath)
    /\ m.panic = (IF t.panic # None THEN t.panic ELSE d.panic)

\* C9: each profile merged from a compiled-in default and a user override
\* section takes every overridable field from the override when the
\* override sets it and from the default otherwise, field by field.
C9_MergePerField ==
    merged # None =>
        \A n \in DOMAIN MergedFrom :
            LET d == MergedFrom[n][1]
                s == section(profile, MergedFrom[n][2])
            IN  s # None => FollowsOverride(merged[1][n], d, s[1])

\* build_profiles has merged a release section that sets lto and the debug
\* level and leaves opt-level and panic to the default
C9_Witness ==
    /\ merged # None
    /\ profile # None
    /\ profile[1]["release"] # None
    /\ LET t == profile[1]["release"][1] IN
          /\ t.lto = Some(TRUE)
          /\ t.debug = Some(Bool(TRUE))
          /\ t.opt_level = None
          /\ t.panic = None
    /\ merged[1].release.lto = TRUE
    /\ merged[1].release.debuginfo = Some(2)
    /\ merged[1].release.opt_level = "3"

----------------------------------------------------------------------------
(* to_manifest as a state machine: the documents, file systems and package *)
(* sources it is run on                                                    *)

MaxReplace == 2

BaseProject ==
    [name |-> "foo", build |-> None, workspace |-> None, license |-> None,
     license_file |-> None]

BaseManifest ==
    [package |-> Some(BaseProject), project |-> None, profile |-> None,
     lib |-> None, bin |-> None, example |-> None, test |-> None,
     bench |-> None, dependencies |-> None, dev_dependencies |-> None,
     dev_dependencies2 |-> None, build_dependencies |-> None,
     build_dependencies2 |-> None, features |-> None, target |-> None,
     replace |-> None, workspace |-> None, badges |-> None]

\* the arguments of one run of to_manifest
Scenario(m, fs, sid, ign) ==
    /\ manifest = m
    /\ files = fs
    /\ source_id = sid
    /\ ignored = ign
    /\ layout \in Layouts(fs)

RelPath(comps) == [abs |-> FALSE, comps |-> comps]
PathDep(comps) == Detailed([DetailedDefault EXCEPT !.path = Some(RelPath(comps))])
GitDep(url) == Detailed([DetailedDefault EXCEPT !.git = Some(url)])
VersionDep(v) == Detailed([DetailedDefault EXCEPT !.version = Some(v)])

PackageSources == {for_path(PackageRoot), crates_io}

Workspaces ==
    {None,
     Some([members |-> None, exclude |-> None]),
     Some([members |-> Some(<<"m">>), exclude |-> None]),
     Some([members |-> Some(<<"m">>), exclude |-> Some(<<"x">>)])}

\* package sections: names, build keys and package.workspace
Projects ==
    {[BaseProject EXCEPT !.name = n, !.build = b, !.workspace = w] :
        n \in {"foo", " "},
        b \in {None, Some(BuildBool(TRUE)), Some(BuildBool(FALSE)),
               Some(BuildString(File("", "gen", "rs")))},
        w \in Opt({"../ws"})}

\* <<package, project>>: neither, one of them, or both
SectionPairs ==
    {<<None, None>>}
    \cup {<<Some(p), None>> : p \in Projects}
    \cup {<<None, Some(p)>> : p \in Projects}
    \cup {<<Some([BaseProject EXCEPT !.name = "pkg"]), Some(p)>> : p \in Projects}

NamedTarget(n) == [TomlTarget_new EXCEPT !.name = Some(n)]

\* <<example, test, bench>> sections
OtherTargetSections ==
    {<<None, None, None>>,
     <<Some(<<>>), None, None>>,
     <<None, Some(<<NamedTarget("t")>>), None>>,
     <<None, None, Some(<<>>)>>}

\* sections, workspace, targets and files
SectionScenarios ==
    \E sp \in SectionPairs, ws \in Workspaces,
       lib \in {None, Some(TomlTarget_new), Some(NamedTarget("a-b"))},
       bin \in {None, Some(<<>>), Some(<<NamedTarget("b")>>)},
       ot \in OtherTargetSections,
       fs \in SUBSET {LibRs, MainRs, BuildRs} :
        Scenario([BaseManifest EXCEPT !.package = sp[1], !.project = sp[2],
                                      !.workspace = ws, !.lib = lib, !.bin = bin,
                                      !.example = ot[1], !.test = ot[2],
                                      !.bench = ot[3]],
                 fs, for_path(PackageRoot), {})

\* a declaration that sets both git and path
GitPathDep ==
    Detailed([DetailedDefault EXCEPT !.git = Some(GoodGitUrl),
                                     !.path = Some(RelPath(<<"g">>))])

TableDecls ==
    {PathDep(<<"a">>), PathDep(<<".", "a">>), PathDep(<<"b">>),
     GitDep(GoodGitUrl), Simple(GoodVersionReq), GitPathDep}
PlatformDecls == {PathDep(<<"a">>), PathDep(<<".", "a">>), PathDep(<<"b">>)}

Table1(n, x) == Some(<< <<n, x>> >>)

NoPlatformTables ==
    [dependencies |-> None, build_dependencies |-> None,
     build_dependencies2 |-> None, dev_dependencies |-> None,
     dev_dependencies2 |-> None]
PlatformWith(x) == [NoPlatformTables EXCEPT !.dependencies = Table1("d", x)]

\* a platform table with both spellings of the dev and of the build table
BothSpellings ==
    [NoPlatformTables EXCEPT
        !.dev_dependencies = Table1("d", PathDep(<<"a">>)),
        !.dev_dependencies2 = Table1("e", Simple(BadVersionReq)),
        !.build_dependencies = Table1("d", PathDep(<<"a">>)),
        !.build_dependencies2 = Table1("f", Detailed(DetailedDefault))]

TargetTables ==
    {None, Some(<< <<BadPlatform, PlatformWith(PathDep(<<"a">>))>> >>),
     Some(<< <<"cfg(unix)", BothSpellings>> >>)}
    \cup {Some(<< <<"cfg(unix)", PlatformWith(x)>> >>) : x \in TableDecls}
    \cup {Some(<< <<pq[1], PlatformWith(x)>>, <<pq[2], PlatformWith(y)>> >>) :
            pq \in {<<"cfg(unix)", "cfg(windows)">>, <<"cfg(windows)", "cfg(unix)">>},
            x \in PlatformDecls, y \in PlatformDecls}

\* dependency tables of every kind, with one name declared in several
DependencyScenarios ==
    \E deps \in {None,
                  Some(<< <<"d", PathDep(<<"a">>)>>, <<"e", PathDep(<<"b">>)>> >>),
                  Some(<< <<"e", PathDep(<<"b">>)>>, <<"d", PathDep(<<"a">>)>> >>),
                  Some(<< <<"g", GitPathDep>>, <<"d", PathDep(<<"a">>)>> >>)}
                 \cup {Table1("d", x) : x \in TableDecls},
       dev \in {None} \cup {Table1("d", x) :
                   x \in {PathDep(<<"a">>), PathDep(<<"b">>), Simple(GoodVersionReq)}},
       dev2 \in {None, Table1("d", PathDep(<<"b">>))},
       build \in {None, Table1("d", PathDep(<<".", "a">>))},
       build2 \in {None, Table1("d", GitDep(GoodGitUrl))},
       tt \in TargetTables,
       rep \in {None, Table1("foo:1.0.0", PathDep(<<"a">>))},
       sid \in PackageSources :
        Scenario([BaseManifest EXCEPT !.dependencies = deps,
                                      !.dev_dependencies = dev,
                                      !.dev_dependencies2 = dev2,
                                      !.build_dependencies = build,
                                      !.build_dependencies2 = build2,
                                      !.target = tt, !.replace = rep],
                 {LibRs}, sid, {})

Replacements ==
    {Simple(GoodVersionReq), VersionDep(GoodVersionReq), PathDep(<<"a">>),
     GitDep(GoodGitUrl), GitDep(BadGitUrl), Detailed(DetailedDefault),
     GitPathDep}

ReplaceTables ==
    {q \in SeqsUpTo(SpecKeys \X Replacements, MaxReplace) :
        \A i, j \in 1..Len(q) : i # j => q[i][1] # q[j][1]}

\* [replace] tables, with and without a package section
ReplaceScenarios ==
    \E pkg \in {None, Some(BaseProject)},
       ws \in {None, Some([members |-> Some(<<"m">>), exclude |-> None])},
       q \in ReplaceTables,
       sid \in PackageSources :
        Scenario([BaseManifest EXCEPT !.package = pkg, !.workspace = ws,
                                      !.replace = Some(q)],
                 {LibRs}, sid, {})

PathedTarget(n, f) == [TomlTarget_new EXCEPT !.name = Some(n), !.path = Some(f)]

SrcBin(stem) == File("src/bin", stem, "rs")

\* files of a package directory: the conventional entry files, files of the
\* listed directories, a dotfile and a file that is no Rust source
TargetFiles ==
    {LibRs, MainRs, SrcBin("foo"), SrcBin("deps"), SrcBin(".x"),
     File("examples", "e", "rs"), File("tests", "e", "rs"),
     File("benches", "h", "txt")}

\* no target section at all: every target is inferred from the directory
InferenceScenarios ==
    \E n \in {"foo", "a-b", "build"},
       b \in {None, Some(BuildBool(FALSE))},
       fs \in SUBSET TargetFiles :
        Scenario([BaseManifest EXCEPT
                      !.package = Some([BaseProject EXCEPT !.name = n, !.build = b])],
                 fs, for_path(PackageRoot), {})

ExplicitLibs ==
    {None, Some(TomlTarget_new), Some(NamedTarget("a-b")),
     Some(PathedTarget("l", MainRs)),
     Some([TomlTarget_new EXCEPT !.plugin = Some(TRUE), !.proc_macro = Some(TRUE)])}

ExplicitBins ==
    {None,
     Some(<<NamedTarget("b"), NamedTarget("b")>>),
     Some(<<NamedTarget("b"), NamedTarget("c")>>),
     Some(<<NamedTarget("c"), NamedTarget("b"), NamedTarget("c"), NamedTarget("b")>>),
     Some(<<TomlTarget_new>>),
     Some(<<NamedTarget("b")>>),
     Some(<<NamedTarget("b"), NamedTarget("native")>>),
     Some(<<PathedTarget("b", SrcBin("p")), PathedTarget("c", SrcBin("p"))>>)}

ExplicitExamples ==
    {None,
     Some(<<NamedTarget("e"), NamedTarget("e")>>),
     Some(<<NamedTarget("e"), TomlTarget_new>>),
     Some(<<PathedTarget("e", File("examples", "q", "rs")),
            PathedTarget("f", File("examples", "q", "rs"))>>)}

\* explicit target sections: repeated names, absent names, reserved names
\* and shared source files
ExplicitTargetScenarios ==
    \E n \in {"foo", "a-b"},
       lib \in ExplicitLibs, bin \in ExplicitBins, ex \in ExplicitExamples,
       test \in {None, Some(<<NamedTarget("t"), NamedTarget("t")>>)},
       bench \in {None, Some(<<NamedTarget("h"), NamedTarget("h")>>),
                   Some(<<NamedTarget(" ")>>)},
       fs \in {{}, {LibRs}, {LibRs, MainRs}, {SrcBin("b")},
                {LibRs, SrcBin("b")}, {LibRs, MainRs, SrcBin("b")}} :
        Scenario([BaseManifest EXCEPT
                      !.package = Some([BaseProject EXCEPT !.name = n]),
                      !.lib = lib, !.bin = bin, !.example = ex,
                      !.test = test, !.bench = bench],
                 fs, for_path(PackageRoot), {})

\* the values of an optional flag
Flags == {None, Some(TRUE), Some(FALSE)}

FlaggedTarget(n, pl, pm, pm2) ==
    [TomlTarget_new EXCEPT !.name = Some(n), !.plugin = pl,
                           !.proc_macro = pm, !.proc_macro2 = pm2]

FlaggedTargets(n) ==
    {FlaggedTarget(n, pl, pm, pm2) :
        pl \in Flags, pm \in Flags, pm2 \in {None, Some(TRUE)}}

\* targets with plugin and the two spellings of proc-macro set or unset
HostFlagScenarios ==
    \E lib \in {None} \cup {Some(t) : t \in FlaggedTargets("l")},
       bin \in {Some(<<t>>) : t \in FlaggedTargets("b")},
       test \in {None} \cup {Some(<<FlaggedTarget("t", pl, None, None)>>) :
                                 pl \in Flags} :
        Scenario([BaseManifest EXCEPT !.lib = lib, !.bin = bin, !.test = test],
                 {LibRs, MainRs}, for_path(PackageRoot), {})

PanicProfiles ==
    Some([NoTomlProfiles EXCEPT !["dev"] = Some(PanicTomlProfile)])

\* the key paths that can be reported for a document whose package section
\* is written as sect
IgnoredKeys(sect) ==
    {"foo"}
    \cup (IF sect = "package" THEN {"package.metadata", "package.metadatax"} ELSE {})
    \cup (IF sect = "project" THEN {"project.metadata"} ELSE {})

\* unconsumed keys, profiles, features and the two license keys
MetadataScenarios ==
    \E sect \in {"package", "project", "none"},
       lic \in Opt({"MIT"}) \X Opt({"LICENSE"}),
       prof \in {None, PanicProfiles},
       feat \in {None, Some("default"), Some(BadFeatures)},
       ws \in BOOLEAN :
        \E ign \in SUBSET IgnoredKeys(sect) :
            LET p == Some([BaseProject EXCEPT !.license = lic[1],
                                              !.license_file = lic[2]])
            IN  Scenario([BaseManifest EXCEPT
                              !.package = IF sect = "package" THEN p ELSE None,
                              !.project = IF sect = "project" THEN p ELSE None,
                              !.workspace =
                                  IF ws THEN Some([members |-> None, exclude |-> None])
                                  ELSE None,
                              !.profile = prof, !.features = feat],
                         {LibRs}, for_path(PackageRoot), ign)

Init ==
    /\ \/ SectionScenarios
       \/ DependencyScenarios
       \/ ReplaceScenarios
       \/ MetadataScenarios
       \/ InferenceScenarios
       \/ ExplicitTargetScenarios
       \/ HostFlagScenarios
    /\ pc = "start"
    /\ real = None /\ virt = None /\ result = None
    /\ cx = None /\ hist = <<>>
    /\ profile = None /\ merged = None /\ profiles = None
    /\ contents = <<>> /\ shell = None /\ root = None

\* to_manifest on the deserialized document: the package path, then the
\* target check or the virtual path
ToManifest ==
    /\ pc = "start"
    /\ LET r == to_real_manifest(manifest, source_id, layout, files) IN
          /\ real' = Some(r)
          /\ virt' = IF r.ok THEN None
                     ELSE Some(to_virtual_manifest(manifest, source_id))
    /\ result' = Some(to_manifest(manifest, source_id, layout, files, ignored))
    /\ pc' = "done"
    /\ UNCHANGED <<files, layout, source_id, manifest, ignored,
                   depVars, profileVars, parseVars>>

Next == ToManifest

Spec == Init /\ [][Next]_vars

----------------------------------------------------------------------------
(* Claims about to_manifest                                                *)

Done == pc = "done"
RealOutcome == real[1]
VirtualOutcome == virt[1]
Outcome == result[1]

IsRealResult == Done /\ Outcome.ok /\ Outcome.val.either.tag = "Real"
IsVirtualResult == Done /\ Outcome.ok /\ Outcome.val.either.tag = "Virtual"
ResultManifest == Outcome.val.either.m

\* the package section the package path reads
EffectiveProject == or(manifest.project, manifest.package)

\* C1: when to_real_manifest fails and to_virtual_manifest fails too, the
\* error of to_manifest is the error of to_real_manifest and not the one of
\* to_virtual_manifest; when to_real_manifest fails and to_virtual_manifest
\* succeeds, the result is the virtual manifest and no error.
C1_FallbackKeepsPackageError ==
    (Done /\ ~RealOutcome.ok) =>
        /\ ~VirtualOutcome.ok =>
              /\ ~Outcome.ok
              /\ Outcome.err = RealOutcome.err
              /\ Outcome.err # VirtualOutcome.err
        /\ VirtualOutcome.ok =>
              /\ Outcome.ok
              /\ Outcome.val.either = Virtual(VirtualOutcome.val.manifest)
              /\ Outcome.val.paths = VirtualOutcome.val.paths

\* both paths have failed, the package path on the workspace conflict and
\* the virtual path on the [package] section
C1_Witness ==
    /\ Done
    /\ ~RealOutcome.ok
    /\ RealOutcome.err = "cannot configure both package.workspace and [workspace]"
    /\ ~VirtualOutcome.ok
    /\ VirtualOutcome.err = "virtual manifests do not define [package]"
    /\ ~Outcome.ok

\* the version a [replace] key names, none when the key does not parse
KeyVersion(key) ==
    LET parsed == PackageIdSpec_parse(key) IN
    IF parsed.ok THEN parsed.val.version ELSE None

\* the URL of a [replace] key, none when it has none or does not parse
KeyUrl(key) ==
    LET parsed == PackageIdSpec_parse(key) IN
    IF parsed.ok THEN parsed.val.url ELSE None

\* the replacement declaration can be resolved: its git URL and its version
\* requirement, when given, are well-formed
Resolves(decl) ==
    IF decl.tag = "Simple" THEN decl.s # BadVersionReq
    ELSE /\ decl.d.git # Some(BadGitUrl)
         /\ decl.d.version # Some(BadVersionReq)

ReplaceEntries == unwrap_or(manifest.replace, <<>>)

\* every entry of [replace] names a version to replace, gives no version
\* requirement and resolves
ReplaceValid ==
    \A i \in 1..Len(ReplaceEntries) :
        /\ KeyVersion(ReplaceEntries[i][1]) # None
        /\ ~version_specified(ReplaceEntries[i][2])
        /\ Resolves(ReplaceEntries[i][2])

NoTargetSections ==
    /\ manifest.lib = None
    /\ manifest.bin = None
    /\ manifest.example = None
    /\ manifest.test = None
    /\ manifest.bench = None

\* C2: for a document with neither a package nor a project section the
\* result is a virtual manifest exactly when [workspace] is present, none of
\* lib, bin, example, test, bench is present and the replace table is valid;
\* it then carries Root with the declared members and the declared exclude
\* list (empty when absent) and has no targets.
C2_VirtualIffWorkspaceOnly ==
    (Done /\ manifest.package = None /\ manifest.project = None) =>
        /\ IsVirtualResult <=>
              (manifest.workspace # None /\ NoTargetSections /\ ReplaceValid)
        /\ Outcome.ok => IsVirtualResult
        /\ IsVirtualResult =>
              /\ ResultManifest.workspace_config =
                    [tag |-> "Root",
                     members |-> manifest.workspace[1].members,
                     exclude |-> IF manifest.workspace[1].exclude = None THEN <<>>
                                 ELSE manifest.workspace[1].exclude[1]]
              /\ "targets" \notin DOMAIN ResultManifest

\* a document with only [workspace], with members and without exclude, has
\* been interpreted as a virtual manifest
C2_Witness ==
    /\ IsVirtualResult
    /\ manifest.package = None /\ manifest.project = None
    /\ manifest.workspace = Some([members |-> Some(<<"m">>), exclude |-> None])
    /\ ResultManifest.workspace_config.members = Some(<<"m">>)
    /\ ResultManifest.workspace_config.exclude = <<>>

\* C3: for a document with a package section, [workspace] together with
\* package.workspace is a failure; [workspace] alone gives Root(members,
\* exclude); no [workspace] gives Member with package.workspace as root; no
\* successful manifest is Root and points to another root.
C3_WorkspaceConfig ==
    (Done /\ EffectiveProject # None) =>
        LET p == EffectiveProject[1] IN
        /\ (manifest.workspace # None /\ p.workspace # None) => ~Outcome.ok
        /\ Outcome.ok => IsRealResult
        /\ (IsRealResult /\ manifest.workspace # None) =>
              ResultManifest.workspace_config =
                  [tag |-> "Root",
                   members |-> manifest.workspace[1].members,
                   exclude |-> IF manifest.workspace[1].exclude = None THEN <<>>
                               ELSE manifest.workspace[1].exclude[1]]
        /\ (IsRealResult /\ manifest.workspace = None) =>
              ResultManifest.workspace_config =
                  [tag |-> "Member", root |-> p.workspace]
        /\ IsRealResult =>
              ~(ResultManifest.workspace_config.tag = "Root" /\ p.workspace # None)

\* a package with src/lib.rs that sets both [workspace] and
\* package.workspace has been rejected for that reason
C3_Witness ==
    /\ Done
    /\ EffectiveProject # None
    /\ manifest.workspace # None
    /\ EffectiveProject[1].workspace # None
    /\ LibRs \in files
    /\ ~Outcome.ok
    /\ Outcome.err = "cannot configure both package.workspace and [workspace]"

NoTargets == "no targets specified in the manifest"

HasPlainTarget(targets) ==
    \E i \in 1..Len(targets) : targets[i].kind # "CustomBuild"

\* C4 as stated: every returned package manifest has a target that is not a
\* custom build, and whenever normalize yields only custom-build targets or
\* none, to_manifest fails with the no-targets error.
C4_Original ==
    Done =>
        /\ IsRealResult => HasPlainTarget(ResultManifest.targets)
        /\ LET n == normalized_targets(manifest, layout, files) IN
           (n.ok /\ ~HasPlainTarget(n.val)) =>
               (~Outcome.ok /\ Outcome.err = NoTargets)

\* C4: every returned package manifest has a target that is not a custom
\* build; whenever normalize yields only custom-build targets or none,
\* to_manifest fails, with the no-targets error when the rest of
\* to_real_manifest succeeds and with the error of to_real_manifest when a
\* later step of it fails.
C4_NoTargetsIsFailure ==
    Done =>
        /\ IsRealResult => HasPlainTarget(ResultManifest.targets)
        /\ LET n == normalized_targets(manifest, layout, files) IN
           (n.ok /\ ~HasPlainTarget(n.val)) =>
               /\ ~Outcome.ok
               /\ RealOutcome.ok => Outcome.err = NoTargets
               /\ ~RealOutcome.ok =>
                     (Outcome.err = RealOutcome.err /\ Outcome.err # NoTargets)

\* a package whose only target is the build script has been rejected with
\* the no-targets error
C4_Witness ==
    /\ Done
    /\ RealOutcome.ok
    /\ Len(RealOutcome.val.manifest.targets) = 1
    /\ RealOutcome.val.manifest.targets[1].kind = "CustomBuild"
    /\ ~Outcome.ok
    /\ Outcome.err = NoTargets

TableEntries(t) == unwrap_or(t, <<>>)

RECURSIVE PlatformEntries(_)
PlatformEntries(targets) ==
    IF targets = <<>> THEN <<>>
    ELSE LET pf == Head(targets)[2] IN
         TableEntries(pf.dependencies)
         \o TableEntries(or(pf.build_dependencies, pf.build_dependencies2))
         \o TableEntries(or(pf.dev_dependencies, pf.dev_dependencies2))
         \o PlatformEntries(Tail(targets))

\* the declarations of the default, dev, build and platform tables that are
\* read, as <<name, declaration>>
Declared ==
    TableEntries(manifest.dependencies)
    \o TableEntries(or(manifest.dev_dependencies, manifest.dev_dependencies2))
    \o TableEntries(or(manifest.build_dependencies, manifest.build_dependencies2))
    \o PlatformEntries(unwrap_or(manifest.target, <<>>))

NumDeclared(n) == Cardinality({i \in 1..Len(Declared) : Declared[i][1] = n})
NumEntries(deps, n) == Cardinality({i \in 1..Len(deps) : deps[i].name = n})
DeclaredNames == {Declared[i][1] : i \in 1..Len(Declared)}

\* the declarations of the dependency tables, resolved, before any check
Resolved ==
    real_dependencies([manifest EXCEPT !.replace = None],
                      EmptyContext(None, source_id, None))

Conflict(deps) ==
    \E i, j \in 1..Len(deps) :
        deps[i].name = deps[j].name /\ deps[i].source_id # deps[j].source_id

SourceConflict ==
    "Dependency has different source paths depending on the build target"

\* C5: if two resolved declarations of the default, dev, build and platform
\* tables of a package have one name and different SourceIds, interpretation
\* fails, for any number of declarations and any order of the tables; in
\* every successful package manifest the dependencies of one name have
\* equal SourceIds.
C5_OneSourcePerName ==
    Done =>
        /\ IsRealResult => ~Conflict(ResultManifest.summary.dependencies)
        /\ (EffectiveProject # None /\ Resolved.ok /\ Conflict(Resolved.val.cx.deps))
              => ~Outcome.ok

\* three declarations of d, the first two agreeing and the third differing,
\* have been rejected for the conflict
C5_Witness ==
    /\ Done
    /\ Resolved.ok
    /\ NumDeclared("d") >= 3
    /\ Resolved.val.cx.deps[1].name = "d"
    /\ Resolved.val.cx.deps[2].name = "d"
    /\ Resolved.val.cx.deps[1].source_id = Resolved.val.cx.deps[2].source_id
    /\ Conflict(Resolved.val.cx.deps)
    /\ ~Outcome.ok
    /\ Outcome.err = SourceConflict

\* the document without its dependency tables
WithoutDependencies ==
    [manifest EXCEPT !.dependencies = None, !.dev_dependencies = None,
                     !.dev_dependencies2 = None, !.build_dependencies = None,
                     !.build_dependencies2 = None, !.target = None]

\* some name is declared in two tables and all declarations of every name
\* resolve to one SourceId
SharedNameAgrees ==
    /\ EffectiveProject # None
    /\ Resolved.ok
    /\ ~Conflict(Resolved.val.cx.deps)
    /\ \E n \in DeclaredNames : NumDeclared(n) >= 2

\* C6 as stated: when one name is declared in two tables with one SourceId,
\* interpretation succeeds and the dependency list has one merged entry for
\* the name.
C6_Original ==
    (Done /\ SharedNameAgrees) =>
        /\ to_manifest(WithoutDependencies, source_id, layout, files, ignored).ok
              => IsRealResult
        /\ IsRealResult =>
              \A n \in DeclaredNames :
                  NumEntries(ResultManifest.summary.dependencies, n) = 1

\* C6: when one name is declared in two tables with one SourceId,
\* interpretation succeeds if it succeeds for the document without its
\* dependency tables, and the dependency list has one entry for each
\* declaration of the name, all with that SourceId; nothing is merged.
C6_SharedNameKeepsEveryEntry ==
    (Done /\ SharedNameAgrees) =>
        /\ to_manifest(WithoutDependencies, source_id, layout, files, ignored).ok
              => IsRealResult
        /\ IsRealResult =>
              /\ \A n \in DeclaredNames :
                    NumEntries(ResultManifest.summary.dependencies, n) = NumDeclared(n)
              /\ ~Conflict(ResultManifest.summary.dependencies)

\* d is declared in [dependencies] and in a platform table with spellings
\* of one directory, and the manifest has two entries for d
C6_Witness ==
    /\ IsRealResult
    /\ manifest.dependencies = Table1("d", PathDep(<<"a">>))
    /\ manifest.target = Some(<< <<"cfg(unix)", PlatformWith(PathDep(<<".", "a">>))>> >>)
    /\ NumDeclared("d") = 2
    /\ NumEntries(ResultManifest.summary.dependencies, "d") = 2
    /\ ResultManifest.summary.dependencies[1].source_id
          = ResultManifest.summary.dependencies[2].source_id

\* the document without its [replace] table is interpreted successfully
FineWithoutReplace ==
    to_manifest([manifest EXCEPT !.replace = None],
                source_id, layout, files, ignored).ok

\* the replace table of the result has, entry by entry, the spec of the key
\* with the default registry as URL when the key has none, and the exact
\* requirement for the version of the key
ExactReplacements ==
    LET rep == ResultManifest.replace IN
    /\ Len(rep) = Len(ReplaceEntries)
    /\ \A i \in 1..Len(rep) :
          LET key == ReplaceEntries[i][1] IN
          /\ rep[i][1].version = KeyVersion(key)
          /\ rep[i][1].url = (IF KeyUrl(key) = None THEN Some(CRATES_IO)
                              ELSE KeyUrl(key))
          /\ rep[i][2].req = [op |-> "=", v |-> KeyVersion(key)[1]]

\* C10 as stated: an entry of [replace] whose replacement has a version
\* requirement is a failure, an entry whose key has no version to replace is
\* a failure, and every other entry succeeds with the exact requirement and
\* the default registry URL.
C10_Original ==
    (Done /\ manifest.replace # None) =>
        /\ (\E i \in 1..Len(ReplaceEntries) : version_specified(ReplaceEntries[i][2]))
              => ~Outcome.ok
        /\ (\E i \in 1..Len(ReplaceEntries) : KeyVersion(ReplaceEntries[i][1]) = None)
              => ~Outcome.ok
        /\ (/\ \A i \in 1..Len(ReplaceEntries) :
                  /\ ~version_specified(ReplaceEntries[i][2])
                  /\ KeyVersion(ReplaceEntries[i][1]) # None
            /\ FineWithoutReplace)
              => (Outcome.ok /\ ExactReplacements)

\* C10: an entry of [replace] whose replacement has a version requirement
\* is a failure, an entry whose key has no version to replace is a failure,
\* and every other entry whose replacement declaration resolves (its git
\* URL, if any, is well-formed) succeeds with the exact requirement and the
\* default registry URL.
C10_ReplaceEntries ==
    (Done /\ manifest.replace # None) =>
        /\ (\E i \in 1..Len(ReplaceEntries) : version_specified(ReplaceEntries[i][2]))
              => ~Outcome.ok
        /\ (\E i \in 1..Len(ReplaceEntries) : KeyVersion(ReplaceEntries[i][1]) = None)
              => ~Outcome.ok
        /\ (/\ \A i \in 1..Len(ReplaceEntries) :
                  /\ ~version_specified(ReplaceEntries[i][2])
                  /\ KeyVersion(ReplaceEntries[i][1]) # None
                  /\ Resolves(ReplaceEntries[i][2])
            /\ FineWithoutReplace)
              => (Outcome.ok /\ ExactReplacements)

\* a table with a key without URL and a key with one, both with a version,
\* has been accepted with exact requirements
C10_Witness ==
    /\ IsRealResult
    /\ Len(ReplaceEntries) = 2
    /\ ReplaceEntries[1][1] = "foo:1.0.0"
    /\ ReplaceEntries[2][1] = "http://host/foo#1.0.0"
    /\ ReplaceEntries[1][2] = PathDep(<<"a">>)
    /\ ResultManifest.replace[1][2].req = [op |-> "=", v |-> "1.0.0"]
    /\ ResultManifest.replace[1][1].url = Some(CRATES_IO)
    /\ ResultManifest.replace[2][1].url = Some("http://host/foo")

----------------------------------------------------------------------------
(* Claims about the target lists                                           *)

\* the package path gets as far as its target lists
PackagePath ==
    /\ Done
    /\ EffectiveProject # None
    /\ EffectiveProject[1].name \notin BlankNames

\* the words of the four uniqueness checks, in the order they are made
KindWords == <<"binary", "example", "bench", "test">>

\* the list of one kind: the section when written, else the inferred targets
KindList(what) ==
    LET n == EffectiveProject[1].name
        pick(sect, inferred) == IF sect # None THEN sect[1] ELSE inferred
    IN  CASE what = "binary" -> pick(manifest.bin, inferred_bin_targets(n, layout))
          [] what = "example" ->
                 pick(manifest.example, inferred_stem_targets(layout.examples))
          [] what = "bench" ->
                 pick(manifest.bench, inferred_stem_targets(layout.benches))
          [] what = "test" ->
                 pick(manifest.test, inferred_stem_targets(layout.tests))

\* the j-th target of the list bears the name of an earlier one
Repeats(list, j) ==
    /\ list[j].name # None
    /\ \E i \in 1..(j - 1) : list[i].name = list[j].name

HasDuplicate(list) == \E j \in 1..Len(list) : Repeats(list, j)

FirstRepeated(list) ==
    list[CHOOSE j \in 1..Len(list) :
            Repeats(list, j) /\ \A i \in 1..(j - 1) : ~Repeats(list, i)].name[1]

DuplicateMessages(n) ==
    {"found duplicate " \o KindWords[k] \o " name " \o n : k \in 1..Len(KindWords)}

\* the checks made on the target sections before the uniqueness checks
NamesGiven(sect) ==
    sect # None =>
        \A i \in 1..Len(sect[1]) :
            sect[1][i].name # None /\ sect[1][i].name[1] \notin BlankNames

LibSectionValid ==
    manifest.lib # None =>
        /\ manifest.lib[1].name # None =>
               manifest.lib[1].name[1] \notin (BlankNames \cup HyphenNames)
        /\ ~(manifest.lib[1].plugin = Some(TRUE)
             /\ or(manifest.lib[1].proc_macro, manifest.lib[1].proc_macro2) = Some(TRUE))

NoReservedBin ==
    \A i \in 1..Len(KindList("binary")) :
        KindList("binary")[i].name # None =>
            KindList("binary")[i].name[1] \notin Blacklist

TargetSectionsValid ==
    /\ LibSectionValid
    /\ NamesGiven(manifest.bin) /\ NamesGiven(manifest.example)
    /\ NamesGiven(manifest.test) /\ NamesGiven(manifest.bench)
    /\ NoReservedBin

TargetsOfKind(kind) ==
    SelectSeq(ResultManifest.targets, LAMBDA t : t.kind = kind)

UniqueNames(targets) ==
    \A i, j \in 1..Len(targets) : i # j => targets[i].name # targets[j].name

\* C11 as the specification words it: whenever a list of one kind holds a
\* name twice, interpretation fails with a message that names that name.
C11_Original ==
    PackagePath =>
        \A k \in 1..Len(KindWords) :
            LET list == KindList(KindWords[k]) IN
            \A j \in 1..Len(list) :
                Repeats(list, j) =>
                    /\ ~Outcome.ok
                    /\ Outcome.err \in DuplicateMessages(list[j].name[1])

\* C11: a name held twice by the list of one kind (binaries, examples,
\* benchmarks or tests, written or inferred) makes interpretation fail; when
\* the checks made before the uniqueness checks pass, the message is the one
\* of the first kind, in the order binaries, examples, benchmarks, tests,
\* that has a repeated name, and it names the first name of that list met a
\* second time; in every package description the names are unique within
\* each kind.
C11_DuplicateNames ==
    /\ PackagePath =>
          \A k \in 1..Len(KindWords) :
              HasDuplicate(KindList(KindWords[k])) =>
                  /\ ~Outcome.ok
                  /\ (/\ TargetSectionsValid
                      /\ \A h \in 1..(k - 1) : ~HasDuplicate(KindList(KindWords[h])))
                     => Outcome.err = "found duplicate " \o KindWords[k] \o " name "
                                         \o FirstRepeated(KindList(KindWords[k]))
    /\ IsRealResult =>
          \A kind \in {"Bin", "Example", "Test", "Bench"} :
              UniqueNames(TargetsOfKind(kind))

\* src/main.rs and src/bin/foo.rs of a package named foo are both inferred
\* as the binary foo, and the failure names foo
C11_Witness ==
    /\ PackagePath
    /\ manifest.bin = None
    /\ HasDuplicate(KindList("binary"))
    /\ ~Outcome.ok
    /\ Outcome.err = "found duplicate binary name foo"

\* the j-th target has the source file of an earlier one
SharesPath(targets, j) ==
    \E i \in 1..(j - 1) : targets[i].src_path = targets[j].src_path

SharedPath(targets) == \E j \in 1..Len(targets) : SharesPath(targets, j)

FirstSharedPath(targets) ==
    targets[CHOOSE j \in 1..Len(targets) :
               SharesPath(targets, j)
               /\ \A i \in 1..(j - 1) : ~SharesPath(targets, i)].src_path

MultipleTargetWarnings(warnings) ==
    SelectSeq(warnings, LAMBDA w : w.w = "file in multiple build targets")

\* the document has nothing but its package and target sections
OnlyTargetSections ==
    /\ manifest.dependencies = None /\ manifest.dev_dependencies = None
    /\ manifest.dev_dependencies2 = None /\ manifest.build_dependencies = None
    /\ manifest.build_dependencies2 = None /\ manifest.target = None
    /\ manifest.replace = None /\ manifest.features = None
    /\ manifest.workspace = None

NoDuplicateNames ==
    \A k \in 1..Len(KindWords) : ~HasDuplicate(KindList(KindWords[k]))

\* C12 as the specification words it: every source file that two targets
\* share is named by a warning of the result, and there is no such warning
\* when no file is shared.
C12_Original ==
    (Done /\ RealOutcome.ok) =>
        LET targets == RealOutcome.val.manifest.targets
            ws == MultipleTargetWarnings(RealOutcome.val.manifest.warnings)
        IN  /\ \A j \in 1..Len(targets) :
                   SharesPath(targets, j) =>
                       \E n \in 1..Len(ws) : ws[n].on = targets[j].src_path
            /\ ~SharedPath(targets) => ws = <<>>

\* C12: two normalized targets with one source file do not make
\* interpretation fail: a document that has only valid target sections
\* without repeated names is accepted by the package path, and when targets
\* share source files the description is returned with exactly one warning,
\* which names the first source file met a second time in the order of the
\* target list; when no two targets share a source file there is no such
\* warning.
C12_SharedSourceWarns ==
    /\ (PackagePath /\ TargetSectionsValid /\ NoDuplicateNames /\ OnlyTargetSections)
          => RealOutcome.ok
    /\ (Done /\ RealOutcome.ok) =>
          LET targets == RealOutcome.val.manifest.targets
              ws == MultipleTargetWarnings(RealOutcome.val.manifest.warnings)
          IN  IF SharedPath(targets)
              THEN /\ IsRealResult
                   /\ MultipleTargetWarnings(ResultManifest.warnings) = ws
                   /\ ws = <<Warn("file in multiple build targets",
                                  FirstSharedPath(targets))>>
              ELSE ws = <<>>

\* a lib section whose path is src/main.rs, next to the inferred binary of
\* src/main.rs
C12_Witness ==
    /\ IsRealResult
    /\ manifest.lib # None
    /\ manifest.lib[1].path = Some(MainRs)
    /\ manifest.bin = None
    /\ SharedPath(ResultManifest.targets)
    /\ MultipleTargetWarnings(ResultManifest.warnings)
          = <<Warn("file in multiple build targets", MainRs)>>

\* no target section is written and no build script is named or found
NothingExplicit ==
    /\ manifest.lib = None /\ manifest.bin = None /\ manifest.example = None
    /\ manifest.test = None /\ manifest.bench = None
    /\ EffectiveProject[1].build \in {None, Some(BuildBool(FALSE))}
    /\ BuildRs \notin files

TargetKinds(targets) == [i \in 1..Len(targets) |-> targets[i].kind]

LibraryOnly ==
    /\ IsRealResult
    /\ TargetKinds(ResultManifest.targets) = <<"Lib">>
    /\ ResultManifest.targets[1].src_path = LibRs

LibraryAndBinary ==
    /\ IsRealResult
    /\ TargetKinds(ResultManifest.targets) = <<"Lib", "Bin">>
    /\ ResultManifest.targets[1].src_path = LibRs
    /\ ResultManifest.targets[2].src_path = MainRs
    /\ ResultManifest.targets[2].name = EffectiveProject[1].name

\* C13 as the specification words it: src/lib.rs alone gives one library,
\* src/lib.rs with src/main.rs gives one library and one binary named after
\* the package, whatever the package is called.
C13_Original ==
    (PackagePath /\ NothingExplicit /\ OnlyTargetSections) =>
        /\ files = {LibRs} => LibraryOnly
        /\ files = {LibRs, MainRs} => LibraryAndBinary

\* C13: with no target section and no build script, a package directory
\* that holds only src/lib.rs yields exactly one library target and nothing
\* else; one that holds src/lib.rs and src/main.rs yields exactly one library
\* and one binary named after the package, unless the package name is one of
\* the reserved binary names, in which case interpretation fails.
C13_InferredTargets ==
    (PackagePath /\ NothingExplicit /\ OnlyTargetSections) =>
        /\ files = {LibRs} => LibraryOnly
        /\ files = {LibRs, MainRs} =>
              IF EffectiveProject[1].name \in Blacklist
              THEN ~Outcome.ok
              ELSE LibraryAndBinary

\* the package foo with src/lib.rs and src/main.rs
C13_Witness ==
    /\ PackagePath /\ NothingExplicit /\ OnlyTargetSections
    /\ files = {LibRs, MainRs}
    /\ EffectiveProject[1].name = "foo"
    /\ LibraryAndBinary

\* a binary of the list, written or inferred, bears a reserved name
ReservedBinary ==
    \E i \in 1..Len(KindList("binary")) :
        /\ KindList("binary")[i].name # None
        /\ KindList("binary")[i].name[1] \in Blacklist

\* C14: a binary target named build, deps, examples or native makes
\* interpretation fail, whether the binary is written in a bin section or
\* inferred from the directory; no package description holds a binary
\* target with one of these names.
C14_ReservedBinaryNames ==
    /\ (PackagePath /\ ReservedBinary) => ~Outcome.ok
    /\ IsRealResult =>
          \A i \in 1..Len(ResultManifest.targets) :
              ResultManifest.targets[i].kind = "Bin" =>
                  ResultManifest.targets[i].name \notin Blacklist

\* src/bin/deps.rs is inferred as the binary deps, after another binary,
\* and the failure names it
C14_Witness ==
    /\ PackagePath
    /\ manifest.bin = None
    /\ layout.bins = <<MainRs, SrcBin("deps")>>
    /\ ~Outcome.ok
    /\ Outcome.err = "the binary target name deps is forbidden"

\* the lib section writes a name
LibNameWritten == manifest.lib # None /\ manifest.lib[1].name # None

HyphenLibraries(targets) ==
    {i \in 1..Len(targets) :
        targets[i].kind = "Lib" /\ targets[i].name \in HyphenNames}

\* C15 as the specification words it: no package description holds a
\* library target whose name has a hyphen.
C15_Original ==
    IsRealResult => HyphenLibraries(ResultManifest.targets) = {}

\* C15: interpretation fails, with the hyphen error, when the name written
\* in the lib section has a hyphen; a library name that is defaulted from
\* the package name or inferred from the layout is not checked, so the only
\* library targets with a hyphen in a package description are those named
\* after the package without a name in the lib section.
C15_WrittenLibraryName ==
    /\ (PackagePath /\ LibNameWritten /\ manifest.lib[1].name[1] \in HyphenNames)
          => /\ ~Outcome.ok
             /\ Outcome.err = "library target names cannot contain hyphens"
    /\ IsRealResult =>
          \A i \in HyphenLibraries(ResultManifest.targets) :
              /\ ~LibNameWritten
              /\ ResultManifest.targets[i].name = EffectiveProject[1].name

\* the package a-b with src/lib.rs and an empty lib section: the library
\* a-b is accepted
C15_Witness ==
    /\ IsRealResult
    /\ manifest.lib = Some(TomlTarget_new)
    /\ EffectiveProject[1].name = "a-b"
    /\ HyphenLibraries(ResultManifest.targets) # {}

----------------------------------------------------------------------------
(* Claims about the unconsumed keys                                        *)

\* the warnings the result carries; a virtual manifest is given none
ResultWarnings == IF IsRealResult THEN ResultManifest.warnings ELSE <<>>

UnusedKeyWarnings ==
    SelectSeq(ResultWarnings, LAMBDA w : w.w = "unused manifest key")

\* the key path of the metadata table of the package section
MetadataSubtree == {"package.metadata"}

\* C16 as the specification words it: after a successful interpretation,
\* of a package or of a virtual manifest, the result carries one unused
\* manifest key warning for each unconsumed key path outside the metadata
\* subtree of the package section and none for a path inside it.
C16_Original ==
    (Done /\ Outcome.ok) =>
        /\ {UnusedKeyWarnings[i].on : i \in 1..Len(UnusedKeyWarnings)}
              = ignored \ MetadataSubtree
        /\ Len(UnusedKeyWarnings) = Cardinality(ignored \ MetadataSubtree)

----------------------------------------------------------------------------
(* Claims about aborts                                                     *)

Panicked(r) == ~r.ok /\ r.err = Panic

\* a target section holds a target without a name
NamelessWritten ==
    \/ \E sect \in {manifest.bin, manifest.example, manifest.test, manifest.bench} :
          sect # None /\ \E i \in 1..Len(sect[1]) : sect[1][i].name = None
    \/ manifest.lib # None /\ manifest.lib[1].name = None

\* C17: no run of the interpreter ends in the panic of TomlTarget::name:
\* whatever the written and inferred lib, bin, example, test and bench
\* targets are, name() is only called on targets that have a name, and a
\* run that does not return a description returns an error.
C17_NoPanic ==
    Done => /\ ~Panicked(RealOutcome)
            /\ ~Panicked(Outcome)

\* a bin section with a target that has no name: the run ends with a
\* returned error
C17_Witness ==
    /\ PackagePath
    /\ NamelessWritten
    /\ manifest.bin # None
    /\ \E i \in 1..Len(manifest.bin[1]) : manifest.bin[1][i].name = None
    /\ ~Outcome.ok
    /\ Outcome.err = "binary target name is required"

----------------------------------------------------------------------------
(* parse.  The text of a document is the sequence of its tokens: the table *)
(* header [a], the key/value pairs k=1 and j=2, the line end, and a token  *)
(* that no TOML document may hold.  A tree is the sequence of the pairs    *)
(* <<table, key/value>> of the document.                                   *)

MaxTokens == 3

Tokens == {"[a]", "k=1", "j=2", "nl", "?"}

Documents == UNION {[1..n -> Tokens] : n \in 0..MaxTokens}

TomlError(at, what) == [at |-> at, what |-> what]

\* the TOML parser from token i on; line tells what the current line holds
\* so far, table is the open table, tree what has been read.  With
\* require_newline a key/value pair may not follow a table header on its line.
RECURSIVE toml_scan(_, _, _, _, _, _)
toml_scan(toml, i, line, table, tree, require_newline) ==
    IF i > Len(toml) THEN Ok(tree)
    ELSE LET t == toml[i] IN
         IF t = "nl"
         THEN toml_scan(toml, i + 1, "empty", table, tree, require_newline)
         ELSE IF t = "?" THEN Err(TomlError(i, "unexpected character"))
         ELSE IF t = "[a]"
         THEN (IF line # "empty" THEN Err(TomlError(i, "expected newline"))
               ELSE IF table = "a" THEN Err(TomlError(i, "redefinition of table"))
               ELSE toml_scan(toml, i + 1, "header", "a", tree, require_newline))
         ELSE IF line = "pair" \/ (line = "header" /\ require_newline)
              THEN Err(TomlError(i, "expected newline"))
         ELSE IF \E n \in 1..Len(tree) : tree[n] = <<table, t>>
              THEN Err(TomlError(i, "duplicate key"))
         ELSE toml_scan(toml, i + 1, "pair", table, Append(tree, <<table, t>>),
                        require_newline)

\* toml.parse() and the Deserializer with set_require_newline_after_table
toml_parse(toml, require_newline) ==
    toml_scan(toml, 1, "empty", "", <<>>, require_newline)

ParseError(msg, cause) == [msg |-> msg, cause |-> cause]

\* a slip in parse: the failure is built from the error of the second parser
parse_second_error(toml, sh) ==
    LET first == toml_parse(toml, TRUE)
        second == toml_parse(toml, FALSE)
    IN  IF first.ok THEN [ret |-> Ok(first.val), shell |-> sh]
        ELSE IF second.ok
             THEN (IF sh.writable
                   THEN [ret |-> Ok(second.val),
                         shell |-> [sh EXCEPT !.out =
                                       Append(@, Warn("newline after table", "Cargo.toml"))]]
                   ELSE [ret |-> Err(ParseError("failed to write to the shell", None)),
                         shell |-> sh])
        ELSE [ret |-> Err(ParseError("could not parse input as TOML",
                                     Some(second.err))),
              shell |-> sh]

\* parse: the outcome and the shell as the call leaves it
parse(toml, sh) ==
    LET first == toml_parse(toml, TRUE)
        second == toml_parse(toml, FALSE)
    IN  IF first.ok THEN [ret |-> Ok(first.val), shell |-> sh]
        ELSE IF second.ok
             THEN (IF sh.writable
                   THEN [ret |-> Ok(second.val),
                         shell |-> [sh EXCEPT !.out =
                                       Append(@, Warn("newline after table", "Cargo.toml"))]]
                   ELSE [ret |-> Err(ParseError("failed to write to the shell", None)),
                         shell |-> sh])
        ELSE [ret |-> Err(ParseError("could not parse input as TOML",
                                     Some(first.err))),
              shell |-> sh]

InitParse ==
    /\ contents \in Documents
    /\ shell \in {Some([writable |-> b, out |-> <<>>]) : b \in BOOLEAN}
    /\ root = None
    /\ files = {} /\ layout = None /\ source_id = None /\ manifest = None
    /\ ignored = {} /\ pc = "idle"
    /\ real = None /\ virt = None /\ result = None
    /\ cx = None /\ hist = <<>>
    /\ profile = None /\ merged = None /\ profiles = None

Parse ==
    /\ shell # None
    /\ root = None
    /\ root' = Some(parse(contents, shell[1]).ret)
    /\ shell' = Some(parse(contents, shell[1]).shell)
    /\ UNCHANGED <<contents, manifestVars, depVars, profileVars>>

NextParse == Parse

SpecParse == InitParse /\ [][NextParse]_vars

----------------------------------------------------------------------------
(* Claims about parse                                                      *)

Strict == toml_parse(contents, TRUE)
Lenient == toml_parse(contents, FALSE)
Parsed == root[1]
Emitted == shell[1].out

\* C18 as the specification words it: parse has three outcomes, told apart
\* by the two parsers alone.
C18_Original ==
    root # None =>
        /\ Strict.ok => (Parsed = Ok(Strict.val) /\ Emitted = <<>>)
        /\ (~Strict.ok /\ Lenient.ok) =>
              (Parsed = Ok(Lenient.val) /\ Len(Emitted) = 1)
        /\ (~Strict.ok /\ ~Lenient.ok) =>
              (/\ ~Parsed.ok
               /\ Parsed.err.cause = Some(Strict.err)
               /\ Emitted = <<>>)

\* C18: when the strict parse succeeds parse returns its tree and emits no
\* warning; when the strict parse fails and the lenient parse succeeds,
\* parse emits exactly one deprecation warning and returns the lenient tree,
\* unless the shell cannot be written, in which case parse returns that
\* failure and emits nothing; when both parses fail parse returns a failure
\* built from the error of the strict parse, not of the lenient parse.
C18_ParseOutcomes ==
    root # None =>
        /\ Strict.ok => (Parsed = Ok(Strict.val) /\ Emitted = <<>>)
        /\ (~Strict.ok /\ Lenient.ok) =>
              IF shell[1].writable
              THEN /\ Parsed = Ok(Lenient.val)
                   /\ Emitted = <<Warn("newline after table", "Cargo.toml")>>
              ELSE /\ ~Parsed.ok
                   /\ Parsed.err.msg = "failed to write to the shell"
                   /\ Emitted = <<>>
        /\ (~Strict.ok /\ ~Lenient.ok) =>
              (/\ ~Parsed.ok
               /\ Parsed.err = ParseError("could not parse input as TOML",
                                          Some(Strict.err))
               /\ Emitted = <<>>)

\* [a] k=1 ? fails in both parsers, at different tokens, and the failure of
\* parse carries the error of the strict one
C18_Witness ==
    /\ root # None
    /\ contents = <<"[a]", "k=1", "?">>
    /\ ~Strict.ok /\ ~Lenient.ok
    /\ Strict.err # Lenient.err
    /\ ~Parsed.ok
    /\ Parsed.err.cause = Some(Strict.err)

----------------------------------------------------------------------------
(* Claims about the nested paths                                           *)

\* the path strings of the declarations of a table that set path and do
\* not set git, in the order of the table
RECURSIVE PathsOf(_)
PathsOf(entries) ==
    IF entries = <<>> THEN <<>>
    ELSE (IF IsPathDecl(Head(entries)[2])
          THEN <<Head(entries)[2].d.path[1]>> ELSE <<>>)
         \o PathsOf(Tail(entries))

Replaced == TableEntries(manifest.replace)

SetsGitAndPath(entries) ==
    \E i \in 1..Len(entries) :
        /\ entries[i][2].tag = "Detailed"
        /\ entries[i][2].d.git # None
        /\ entries[i][2].d.path # None

\* C19: the nested paths of a successful result are, in processing order,
\* the path strings of exactly the declarations resolved on the way to the
\* result that set path and do not set git: every read dependency table and
\* then the replacements for a package, the replacements alone for a
\* virtual manifest; a declaration with git, or without path, adds nothing.
C19_NestedPaths ==
    /\ IsRealResult => Outcome.val.paths = PathsOf(Declared \o Replaced)
    /\ IsVirtualResult => Outcome.val.paths = PathsOf(Replaced)

\* a package whose tables hold a declaration with git and path, two plain
\* path declarations and a path replacement has been interpreted
C19_Witness ==
    /\ IsRealResult
    /\ SetsGitAndPath(Declared)
    /\ Len(PathsOf(Declared)) >= 2
    /\ PathsOf(Replaced) # <<>>
    /\ Len(Outcome.val.paths) >= 3

----------------------------------------------------------------------------
(* Claims about git references                                             *)

SetsGit(decl) == decl.tag = "Detailed" /\ decl.d.git # None

RefKeys == {"branch", "tag", "rev"}
RefsSet(decl) == {k \in RefKeys : decl.d[k] # None}

\* the reference the keys of a declaration ask for
ExpectedReference(decl) ==
    CASE "branch" \in RefsSet(decl) -> Branch(decl.d.branch[1])
      [] RefsSet(decl) \in {{"tag"}, {"tag", "rev"}} -> Tag(decl.d.tag[1])
      [] RefsSet(decl) = {"rev"} -> Rev(decl.d.rev[1])
      [] RefsSet(decl) = {} -> Branch("master")

AmbiguityWarnings(name) ==
    Cardinality({k \in 1..Len(cx[1].warnings) :
                    cx[1].warnings[k] = Warn("many_git_refs", name)})

\* C20: a declaration with git set, a valid URL and a valid version resolves;
\* the reference of its git SourceId is the branch if branch is set, else
\* the tag if tag is set, else the rev if rev is set, else the branch
\* master; exactly one ambiguity warning is added for it when more than one
\* of branch, tag and rev is set, and none otherwise.
C20_GitReference ==
    cx # None =>
        \A i \in 1..Len(hist) :
            SetsGit(hist[i].decl) =>
                /\ hist[i].ok <=> hist[i].decl.d.git[1] # BadGitUrl
                /\ hist[i].ok =>
                     /\ cx[1].deps[i].source_id =
                            for_git(hist[i].decl.d.git[1],
                                    ExpectedReference(hist[i].decl))
                     /\ AmbiguityWarnings(hist[i].name) =
                            IF Cardinality(RefsSet(hist[i].decl)) > 1
                            THEN 1 ELSE 0

\* a declaration with branch, tag and rev and one with tag and rev have
\* been resolved
C20_Witness ==
    /\ cx # None
    /\ Len(cx[1].deps) = 2
    /\ SetsGit(hist[1].decl) /\ RefsSet(hist[1].decl) = RefKeys
    /\ SetsGit(hist[2].decl) /\ RefsSet(hist[2].decl) = {"tag", "rev"}
    /\ AmbiguityWarnings(hist[1].name) = 1

----------------------------------------------------------------------------
(* Claims about declarations without a source                              *)

\* the keys of a declaration as to_dependency sees them
DetailsOf(decl) ==
    IF decl.tag = "Simple"
    THEN [DetailedDefault EXCEPT !.version = Some(decl.s)]
    ELSE decl.d

NoSourceKeys(decl) ==
    /\ DetailsOf(decl).version = None
    /\ DetailsOf(decl).path = None
    /\ DetailsOf(decl).git = None

NoSourceWarnings(name) ==
    Cardinality({k \in 1..Len(cx[1].warnings) :
                    cx[1].warnings[k] = Warn("no_source", name)})

\* C21: a declaration with none of version, path and git is resolved, to
\* the default registry SourceId, and exactly one warning that no source
\* was given is added for it; no such warning is added for a resolved
\* declaration that sets any of the three keys.
C21_NoSourceAccepted ==
    cx # None =>
        \A i \in 1..Len(hist) :
            /\ NoSourceKeys(hist[i].decl) =>
                 /\ hist[i].ok
                 /\ cx[1].deps[i].source_id = crates_io
                 /\ NoSourceWarnings(hist[i].name) = 1
            /\ (hist[i].ok /\ ~NoSourceKeys(hist[i].decl)) =>
                 NoSourceWarnings(hist[i].name) = 0

\* an empty declaration and one with only a version have been resolved
C21_Witness ==
    /\ cx # None
    /\ Len(cx[1].deps) = 2
    /\ hist[1].decl = Detailed(DetailedDefault)
    /\ hist[2].decl = Simple(GoodVersionReq)
    /\ NoSourceWarnings(hist[1].name) = 1

----------------------------------------------------------------------------
(* Claims about path dependencies of packages that are not path sources    *)

\* C22: when the SourceId of the owning package is not a path source, every
\* declaration with path set and git unset resolves to the SourceId of the
\* owning package, whatever path string is written.
C22_InheritsOwnerSource ==
    (cx # None /\ ~is_path(cx[1].source_id)) =>
        \A i \in 1..Len(cx[1].deps) :
            IsPathDecl(hist[i].decl) =>
                cx[1].deps[i].source_id = cx[1].source_id

\* two declarations with different path strings have been resolved for a
\* package that comes from a git repository
C22_Witness ==
    /\ cx # None
    /\ cx[1].source_id.kind = "git"
    /\ Len(cx[1].deps) = 2
    /\ IsPathDecl(hist[1].decl)
    /\ IsPathDecl(hist[2].decl)
    /\ Directory(hist[1].decl.d.path[1]) # Directory(hist[2].decl.d.path[1])
    /\ cx[1].deps[1].source_id = cx[1].deps[2].source_id

----------------------------------------------------------------------------
(* Claims about the path of a single binary beside a library               *)

\* the package has a library and a bin section of one binary without path
LibraryAndOneBinary ==
    /\ IsRealResult
    /\ TargetsOfKind("Lib") # <<>>
    /\ manifest.bin # None
    /\ Len(manifest.bin[1]) = 1
    /\ manifest.bin[1][1].path = None

BinaryPath == TargetsOfKind("Bin")[1].src_path
BinaryFile == SrcBin(manifest.bin[1][1].name[1])

\* C23 as the specification words it: src/main.rs if it exists, else
\* src/bin/<name>.rs if it exists, else src/main.rs again.
C23_Original ==
    LibraryAndOneBinary =>
        BinaryPath = IF MainRs \in files THEN MainRs
                     ELSE IF BinaryFile \in files THEN BinaryFile
                     ELSE MainRs

\* C23: for a package with a library and one binary that gives no path, the
\* path of the binary is src/main.rs if that file exists, else
\* src/bin/<name>.rs if that file exists, else src/bin/main.rs.
C23_SingleBinaryPath ==
    LibraryAndOneBinary =>
        BinaryPath = IF MainRs \in files THEN MainRs
                     ELSE IF BinaryFile \in files THEN BinaryFile
                     ELSE File("src/bin", "main", "rs")

\* a library and one binary whose files src/main.rs and src/bin/<name>.rs
\* are both missing
C23_Witness ==
    /\ LibraryAndOneBinary
    /\ MainRs \notin files
    /\ BinaryFile \notin files
    /\ BinaryPath = File("src/bin", "main", "rs")

----------------------------------------------------------------------------
(* Claims about targets that run on the host                               *)

\* the proc-macro flag of a target: proc-macro, else proc_macro
ProcMacroFlag(t) == IF t.proc_macro # None THEN t.proc_macro ELSE t.proc_macro2

ExplicitlyTrue(t) == t.plugin = Some(TRUE) \/ ProcMacroFlag(t) = Some(TRUE)
ExplicitlyFalse(t) == t.plugin = Some(FALSE) \/ ProcMacroFlag(t) = Some(FALSE)

\* the value of for_host that the flags of t ask for
ExpectedForHost(t) ==
    IF ExplicitlyTrue(t) THEN TRUE
    ELSE IF ExplicitlyFalse(t) THEN FALSE
    ELSE Target_blank.for_host

\* the lib target the package path configures, when there is one
ConfiguredLib ==
    IF manifest.lib # None THEN manifest.lib
    ELSE inferred_lib_target(EffectiveProject[1].name, layout)

ResultKinds == <<"Bin", "Example", "Bench", "Test">>

\* C24: in every package manifest, each target made of a lib, bin, example,
\* test or bench target runs on the host if plugin or proc-macro is true,
\* does not if neither is true and one of them is false, and keeps the
\* default of its kind when both are unset; a true on either flag wins over
\* a false on the other.
C24_ForHost ==
    IsRealResult =>
        /\ ConfiguredLib # None =>
              TargetsOfKind("Lib")[1].for_host = ExpectedForHost(ConfiguredLib[1])
        /\ \A k \in 1..Len(KindWords) :
              \A i \in 1..Len(KindList(KindWords[k])) :
                  TargetsOfKind(ResultKinds[k])[i].for_host =
                      ExpectedForHost(KindList(KindWords[k])[i])

\* a package whose binary sets plugin to false and proc-macro to true and
\* whose library sets plugin to true and proc-macro to false
C24_Witness ==
    /\ IsRealResult
    /\ manifest.lib # None
    /\ manifest.lib[1].plugin = Some(TRUE)
    /\ ProcMacroFlag(manifest.lib[1]) = Some(FALSE)
    /\ manifest.bin # None
    /\ Len(manifest.bin[1]) = 1
    /\ manifest.bin[1][1].plugin = Some(FALSE)
    /\ ProcMacroFlag(manifest.bin[1][1]) = Some(TRUE)
    /\ TargetsOfKind("Bin")[1].for_host
    /\ TargetsOfKind("Lib")[1].for_host

----------------------------------------------------------------------------
(* Claims about the build script                                           *)

BuildKey == EffectiveProject[1].build

CustomBuildPaths ==
    LET t == TargetsOfKind("CustomBuild") IN [i \in 1..Len(t) |-> t[i].src_path]

\* C25: a package manifest has no custom-build target when package.build
\* is false, even if build.rs exists; one for build.rs when package.build is
\* true, even if build.rs does not exist; one for the written path when
\* package.build is a string; and, when package.build is absent, one for
\* build.rs if and only if build.rs exists.
C25_CustomBuild ==
    IsRealResult =>
        CustomBuildPaths =
            IF BuildKey = None
            THEN (IF BuildRs \in files THEN <<BuildRs>> ELSE <<>>)
            ELSE IF BuildKey[1] = BuildBool(FALSE) THEN <<>>
            ELSE IF BuildKey[1] = BuildBool(TRUE) THEN <<BuildRs>>
            ELSE <<BuildKey[1].s>>

\* package.build is true, build.rs does not exist and the manifest has a
\* custom-build target for build.rs
C25_Witness ==
    /\ IsRealResult
    /\ BuildKey = Some(BuildBool(TRUE))
    /\ BuildRs \notin files
    /\ CustomBuildPaths = <<BuildRs>>

----------------------------------------------------------------------------
(* Claims about the platform of a dependency                               *)

PlatformTables == unwrap_or(manifest.target, <<>>)

\* the platform each declaration of the read tables is declared for, in
\* processing order: none for the tables of the top level
RECURSIVE PlatformsOf(_)
PlatformsOf(targets) ==
    IF targets = <<>> THEN <<>>
    ELSE [i \in 1..Len(PlatformEntries(<<Head(targets)>>)) |->
              Some(Head(targets)[1])]
         \o PlatformsOf(Tail(targets))

DeclaredPlatforms ==
    [i \in 1..(Len(Declared) - Len(PlatformEntries(PlatformTables))) |-> None]
    \o PlatformsOf(PlatformTables)

ReplaceOf(mf) == [i \in 1..Len(mf.replace) |-> mf.replace[i][2]]

\* C26 as the specification words it: a dependency of a result carries the
\* platform of the platform table it is declared in and none when it is
\* declared in a table of the top level; a replacement carries none,
\* whatever platform tables the document has.
C26_Original ==
    /\ IsRealResult =>
          /\ \A i \in 1..Len(ResultManifest.summary.dependencies) :
                 ResultManifest.summary.dependencies[i].platform
                     = DeclaredPlatforms[i]
          /\ \A j \in 1..Len(ResultManifest.replace) :
                 ReplaceOf(ResultManifest)[j].platform = None
    /\ IsVirtualResult =>
          \A j \in 1..Len(ResultManifest.replace) :
              ReplaceOf(ResultManifest)[j].platform = None

----------------------------------------------------------------------------
(* Claims about the kind of the result                                     *)

HasPackageSection == manifest.package # None \/ manifest.project # None

\* C27: a virtual manifest is returned only for a document with neither a
\* package nor a project section; for a document with one of them the
\* outcome is a package manifest or a failure whose error is the one of
\* the package path: the error of to_real_manifest, or the missing targets
\* found when to_real_manifest has succeeded.
C27_VirtualOnlyWithoutPackage ==
    Done =>
        /\ IsVirtualResult => ~HasPackageSection
        /\ HasPackageSection =>
              \/ IsRealResult
              \/ /\ ~Outcome.ok
                 /\ Outcome.err = IF RealOutcome.ok THEN NoTargets
                                  ELSE RealOutcome.err

\* a document with a blank package name, [workspace] and no target section
\* has been refused with the error of the package path
C27_Witness ==
    /\ Done
    /\ manifest.package # None
    /\ manifest.project = None
    /\ manifest.workspace # None
    /\ NoTargetSections
    /\ ~RealOutcome.ok
    /\ ~Outcome.ok
    /\ Outcome.err = "package name cannot be an empty string"

----------------------------------------------------------------------------
(* Claims about the two spellings of a dependency table                    *)

\* the tables of a document or of a platform table without the underscore
\* spelling of every table whose hyphenated spelling is present
Hyphenated(t) ==
    [t EXCEPT
        !.dev_dependencies2 = IF t.dev_dependencies # None THEN None ELSE @,
        !.build_dependencies2 = IF t.build_dependencies # None THEN None ELSE @]

HyphenatedManifest ==
    [Hyphenated(manifest) EXCEPT
        !.target = IF @ = None THEN None
                   ELSE Some([i \in 1..Len(@[1]) |->
                                 <<@[1][i][1], Hyphenated(@[1][i][2])>>])]

SpelledTwice(t) ==
    \/ t.dev_dependencies # None /\ t.dev_dependencies2 # None
    \/ t.build_dependencies # None /\ t.build_dependencies2 # None

\* C28: when a dev or build table is written in both spellings, at the top
\* level or in a platform table, the outcome is the outcome for the document
\* without the underscore table: that table adds no dependency, no warning,
\* no nested path and no failure.
C28_HyphenatedWins ==
    Done => Outcome = to_manifest(HyphenatedManifest, source_id, layout,
                                  files, ignored)

\* a package with dev-dependencies and dev_dependencies at the top level and
\* both spellings of both tables in a platform table, the underscore tables
\* holding declarations that would fail, warn or add a path
C28_Witness ==
    /\ IsRealResult
    /\ SpelledTwice(manifest)
    /\ manifest.target # None
    /\ SpelledTwice(manifest.target[1][1][2])
    /\ HyphenatedManifest # manifest
    /\ Len(ResultManifest.summary.dependencies) >= 3

====
